---------------------------- MODULE Spec2Model ----------------------------
(***************************************************************************)
(* A model of pyop's matrix-free LinearOperator (pyop/linop.py), of the    *)
(* block combinators (pyop/block.py), of the matmat wrapper                *)
(* (pyop/utilities.py) and of the matrix adapter (pyop/convert.py).        *)
(*                                                                         *)
(* Operator objects live in `heap` (an object's identity is its index),    *)
(* Python lists handed to the block combinators live in `lists`, and       *)
(* `last` records the latest operation with what it returned or raised.    *)
(* An array is a record [shape, data]: shape is the numpy shape tuple and  *)
(* data the entries in row-major (C) order.                                *)
(***************************************************************************)
EXTENDS Integers, Sequences, FiniteSets, TLC

VARIABLES heap, lists, last

vars == <<heap, lists, last>>

(***************************************************************************)
(* Bounds of the model.                                                    *)
(***************************************************************************)
\* Operators a run of SpecApply constructs.
MaxApplyOps == 1
\* Combinator calls a run of Spec makes on top of its leaf operators.
MaxSteps == 2
\* Largest exponent tried with **.
MaxPow == 3

(***************************************************************************)
(* Arrays and the numpy operations the code uses.                          *)
(***************************************************************************)
Arr(shape, data) == [shape |-> shape, data |-> data]

\* The value standing for "nothing was returned".
NoVal == Arr(<<0>>, <<>>)

Rank(x) == Len(x.shape)

RECURSIVE Prod(_)
Prod(s) == IF s = <<>> THEN 1 ELSE Head(s) * Prod(Tail(s))

RECURSIVE SumTo(_, _)
\* f[1] + ... + f[n]
SumTo(f, n) == IF n = 0 THEN 0 ELSE f[n] + SumTo(f, n - 1)

\* Entry (i, j), 1-based, of a rank-2 array.
At(m, i, j) == m.data[(i - 1) * m.shape[2] + j]

\* numpy's ndarray.T of a rank-2 array.
NpTranspose(m) ==
    LET r == m.shape[1]
        c == m.shape[2]
    IN  Arr(<<c, r>>,
            [p \in 1..(r * c) |-> At(m, ((p - 1) % r) + 1, ((p - 1) \div r) + 1)])

\* x.reshape(-1, 1) of a rank-1 array.
ReshapeColumn(x) == Arr(<<Prod(x.shape), 1>>, x.data)

\* numpy.ravel
NpRavel(x) == Arr(<<Prod(x.shape)>>, x.data)

\* k * x for a number k.
NpScale(k, x) == Arr(x.shape, [p \in 1..Len(x.data) |-> k * x.data[p]])

\* -x
NpNeg(x) == Arr(x.shape, [p \in 1..Len(x.data) |-> 0 - x.data[p]])

\* Whether numpy adds a and b entry by entry (equal shapes; the model's
\* operands never need broadcasting).
SameShape(a, b) == a.shape = b.shape

NpAdd(a, b) == Arr(a.shape, [p \in 1..Len(a.data) |-> a.data[p] + b.data[p]])

NpSub(a, b) == Arr(a.shape, [p \in 1..Len(a.data) |-> a.data[p] - b.data[p]])

\* Whether m.dot(x) is defined for a rank-2 m: x of rank 1 or 2 whose
\* leading dimension is m's column count.
DotAligned(m, x) == Rank(x) \in {1, 2} /\ x.shape[1] = m.shape[2]

\* m.dot(x): a rank-1 x gives a rank-1 result, a rank-2 x a rank-2 result.
NpDot(m, x) ==
    LET r == m.shape[1]
        c == m.shape[2]
        k == IF Rank(x) = 1 THEN 1 ELSE x.shape[2]
        entry(i, j) == SumTo([l \in 1..c |-> At(m, i, l) * x.data[(l - 1) * k + j]], c)
    IN  Arr(IF Rank(x) = 1 THEN <<r>> ELSE <<r, k>>,
            [p \in 1..(r * k) |-> entry(((p - 1) \div k) + 1, ((p - 1) % k) + 1)])

\* Rows a+1 .. b of a rank-2 array (b clipped to the array, as numpy slices).
RowSlice(x, a, b) ==
    LET k == x.shape[2]
        hi == IF b > x.shape[1] THEN x.shape[1] ELSE b
        lo == IF a > hi THEN hi ELSE a
    IN  Arr(<<hi - lo, k>>, SubSeq(x.data, lo * k + 1, hi * k))

\* numpy.vsplit(x, idx)[i]: the i-th piece of x cut along axis 0 at the
\* offsets idx.
VsplitPiece(x, idx, i) ==
    RowSlice(x, IF i = 1 THEN 0 ELSE idx[i - 1],
                IF i > Len(idx) THEN x.shape[1] ELSE idx[i])

\* numpy.atleast_2d of an array of rank <= 2.
AtLeast2d(a) ==
    IF Rank(a) = 0 THEN Arr(<<1, 1>>, a.data)
    ELSE IF Rank(a) = 1 THEN Arr(<<1, a.shape[1]>>, a.data)
    ELSE a

\* Whether numpy.vstack accepts the pair: equal trailing dimensions.
VstackAligned(a, b) == AtLeast2d(a).shape[2] = AtLeast2d(b).shape[2]

\* numpy.vstack((a, b)).
NpVstack2(a, b) ==
    LET a2 == AtLeast2d(a)
        b2 == AtLeast2d(b)
    IN  Arr(<<a2.shape[1] + b2.shape[1], a2.shape[2]>>, a2.data \o b2.data)

\* numpy.cumsum of a sequence of numbers.
Cumsum(s) == [i \in 1..Len(s) |-> SumTo(s, i)]

\* What sum(()) returns: the Python int 0, which is no array (it has no
\* shape attribute).
PyZero == Arr(<<-1>>, <<0>>)

IsNdarray(v) == v.shape # <<-1>>

(***************************************************************************)
(* Functions.  A forward or adjoint callable is a term: k names the code   *)
(* that runs, id is the function object's identity, and a, b, idx are what *)
(* a closure captured (operator objects and lists by reference).           *)
(***************************************************************************)
Fn(k, id, a, b, idx) == [k |-> k, id |-> id, a |-> a, b |-> b, idx |-> idx]

\* adjoint=None, the constructor's default.
NoneFn == Fn("None", <<"None", 0>>, 0, 0, <<>>)

\* LinearOperator.__missingAdjoint, the one shared sentinel.
MissingAdjointFn == Fn("missing", <<"missing", 0>>, 0, 0, <<>>)

(***************************************************************************)
(* Program inputs: the matrices handed to toLinearOperator, the values a   *)
(* user-written kernel returns, and the arrays operators are applied to.   *)
(***************************************************************************)
Mats == << Arr(<<2, 2>>, <<1, 2, 0, 1>>),
           Arr(<<1, 2>>, <<1, 2>>),
           Arr(<<2, 1>>, <<2, 1>>),
           Arr(<<2, 2>>, <<0, 1, 1, 1>>),
           Arr(<<2>>, <<1, 2>>),
           Arr(<<2, 1, 1>>, <<1, 2>>),
           Arr(<<>>, <<7>>) >>

\* Values returned by kernels such as `lambda x: np.zeros((5, 5))`.
Consts == << Arr(<<>>, <<5>>),
             Arr(<<2>>, <<0, 0>>),
             Arr(<<2, 1>>, <<0, 0>>),
             Arr(<<2, 2>>, <<0, 0, 0, 0>>),
             Arr(<<3, 3>>, <<0, 0, 0, 0, 0, 0, 0, 0, 0>>),
             Arr(<<2, 1, 1>>, <<0, 0>>) >>

\* m.dot and m.T.dot of the n-th matrix.
DotFn(n) == Fn("dot", <<"dot", n>>, n, 0, <<>>)

\* m.T is a new array at every evaluation, and a bound method is the method
\* of its object: p tells the m.T of one toLinearOperator call from that of
\* another.
TDotFn(n, p) == Fn("Tdot", <<"Tdot", n, p>>, n, 0, <<>>)

\* lambda x: <the n-th constant>
ConstFn(n) == Fn("const", <<"const", n>>, n, 0, <<>>)

\* lambda x: x
IdentFn == Fn("ident", <<"ident", 0>>, 0, 0, <<>>)

(***************************************************************************)
(* LinearOperator: construction, shape, T.                                 *)
(***************************************************************************)
\* A shape argument as Python sees it: whether it is a tuple, and its
\* entries, each tagged with its Python type.
PyInt(v) == [t |-> "int", v |-> v]

PyShape(r, c) == [tuple |-> TRUE, elems |-> <<PyInt(r), PyInt(c)>>]

NoObj == [shape |-> <<0, 0>>, forward |-> NoneFn, adjoint |-> NoneFn]

\* LinearOperator.__init__: the new object, or the exception raised.
LinearOperator(shape, forward, adjoint) ==
    LET adj == IF adjoint = NoneFn THEN MissingAdjointFn ELSE adjoint
        e == shape.elems
    IN  IF ~(Len(e) = 2 /\ shape.tuple)
        THEN [err |-> "AssertionError", obj |-> NoObj]
        ELSE IF e[1].t # "int" \/ e[2].t # "int"
        THEN [err |-> "ValueError", obj |-> NoObj]
        ELSE IF e[1].v <= 0 \/ e[2].v <= 0
        THEN [err |-> "ValueError", obj |-> NoObj]
        ELSE [err |-> "",
              obj |-> [shape |-> <<e[1].v, e[2].v>>, forward |-> forward,
                       adjoint |-> adj]]

\* shape[::-1]
Reversed(shape) == <<shape[2], shape[1]>>

\* A variant of T that hands the adjoint over twice.
TAdjointTwice(op) ==
    IF op.adjoint = MissingAdjointFn
    THEN [err |-> "MissingAdjoint", obj |-> NoObj]
    ELSE LinearOperator(PyShape(Reversed(op.shape)[1], Reversed(op.shape)[2]),
                        op.adjoint, op.adjoint)

\* A variant of T that reverses the shape and keeps forward and adjoint in
\* place.
TUnswapped(op) ==
    IF op.adjoint = MissingAdjointFn
    THEN [err |-> "MissingAdjoint", obj |-> NoObj]
    ELSE LinearOperator(PyShape(Reversed(op.shape)[1], Reversed(op.shape)[2]),
                        op.forward, op.adjoint)

\* The property T.
T(op) ==
    IF op.adjoint = MissingAdjointFn
    THEN [err |-> "MissingAdjoint", obj |-> NoObj]
    ELSE LinearOperator(PyShape(Reversed(op.shape)[1], Reversed(op.shape)[2]),
                        op.adjoint, op.forward)

CheckSameDims(a, b) == a.shape = b.shape

\* A variant of __checkInnerDims comparing the leading dimensions.
CheckLeadingDims(a, b) == a.shape[1] = b.shape[1]

CheckInnerDims(a, b) == a.shape[2] = b.shape[1]

\* A variant of __upgradeShapeToMatrix that lets shapes of rank > 2 through.
UpgradeShapeAnyRank(shape) ==
    IF Len(shape) = 0 THEN [err |-> "ZeroDimension", shape |-> <<>>]
    ELSE IF Len(shape) = 1 THEN [err |-> "", shape |-> <<shape[1], 1>>]
    ELSE [err |-> "", shape |-> shape]

\* __upgradeShapeToMatrix: the shape read as a matrix shape, or the error.
UpgradeShapeToMatrix(shape) ==
    IF Len(shape) = 0 THEN [err |-> "ZeroDimension", shape |-> <<>>]
    ELSE IF Len(shape) = 1 THEN [err |-> "", shape |-> <<shape[1], 1>>]
    ELSE IF Len(shape) = 2 THEN [err |-> "", shape |-> shape]
    ELSE [err |-> "HighOrderTensor", shape |-> <<>>]

(***************************************************************************)
(* Application.  An outcome is what a call did: err is the exception       *)
(* raised ("" when it returned), val the value returned, calls the         *)
(* identities of the functions invoked, in order, and fret the value the   *)
(* operator's own forward returned (<<>> when it did not return).          *)
(***************************************************************************)
Ok(v, calls) == [err |-> "", val |-> v, calls |-> calls, fret |-> <<>>]

Raise(e, calls) == [err |-> e, val |-> NoVal, calls |-> calls, fret |-> <<>>]

(***************************************************************************)
(* What a closure does when invoked on x is a sequence of steps, each an   *)
(* application of a captured operator: op is the operator, t says that the *)
(* step applies op.T (the property is read when the step starts), only     *)
(* that the step reads op.T and applies nothing, prev that the step's      *)
(* input is the previous step's result (else x), and comb how the result   *)
(* joins the earlier ones: "keep" (kept beside them), "add" or "sub"       *)
(* (added to or subtracted from the last one).                             *)
(***************************************************************************)
Step(op, t, x, comb) ==
    [op |-> op, t |-> t, only |-> FALSE, prev |-> FALSE, x |-> x, comb |-> comb]

\* __add__: lambda x: self(x) + other(x)
AddSteps(h, f, x) == <<Step(h[f.a], FALSE, x, "keep"), Step(h[f.b], FALSE, x, "add")>>

\* __add__: lambda x: self.T(x) + other.T(x)
AddTSteps(h, f, x) == <<Step(h[f.a], TRUE, x, "keep"), Step(h[f.b], TRUE, x, "add")>>

\* __sub__: lambda x: self(x) - other(x)
SubSteps(h, f, x) == <<Step(h[f.a], FALSE, x, "keep"), Step(h[f.b], FALSE, x, "sub")>>

\* A variant of the difference's adjoint applying the operands themselves.
SubTStepsForward(h, f, x) ==
    <<Step(h[f.a], FALSE, x, "keep"), Step(h[f.b], FALSE, x, "sub")>>

\* __sub__: lambda x: self.T(x) - other.T(x)
SubTSteps(h, f, x) == <<Step(h[f.a], TRUE, x, "keep"), Step(h[f.b], TRUE, x, "sub")>>

\* __scaledmul__: lambda x: self(other*x)
ScalSteps(h, f, x) == <<Step(h[f.a], FALSE, NpScale(f.b, x), "keep")>>

\* A variant of the scaled adjoint that applies self instead of self.T.
ScalTStepsForward(h, f, x) == <<Step(h[f.a], FALSE, NpScale(f.b, x), "keep")>>

\* A variant of the scaled adjoint that drops the scalar.
ScalTStepsUnscaled(h, f, x) == <<Step(h[f.a], TRUE, x, "keep")>>

\* __scaledmul__: lambda x: self.T(other*x)
ScalTSteps(h, f, x) == <<Step(h[f.a], TRUE, NpScale(f.b, x), "keep")>>

\* A variant of the product's forward that stops after other: other(x).
MulStepsOtherOnly(h, f, x) == <<Step(h[f.b], FALSE, x, "keep")>>

\* A variant of the product's forward applying self first: other(self(x)).
MulStepsSelfFirst(h, f, x) ==
    <<Step(h[f.a], FALSE, x, "keep"),
      [Step(h[f.b], FALSE, x, "keep") EXCEPT !.prev = TRUE]>>

\* __mul__: lambda x: self(other(x))
MulSteps(h, f, x) ==
    <<Step(h[f.b], FALSE, x, "keep"),
      [Step(h[f.a], FALSE, x, "keep") EXCEPT !.prev = TRUE]>>

\* A variant of the product's adjoint in the order of the forward:
\* self.T(other.T(x)).
MulTStepsUnreversed(h, f, x) ==
    <<[Step(h[f.a], TRUE, x, "keep") EXCEPT !.only = TRUE],
      Step(h[f.b], TRUE, x, "keep"),
      [Step(h[f.a], TRUE, x, "keep") EXCEPT !.prev = TRUE]>>

\* __mul__: lambda x: other.T(self.T(x)).  Python reads the callee other.T
\* first, then evaluates the argument self.T(x), then makes the call.
MulTSteps(h, f, x) ==
    <<[Step(h[f.b], TRUE, x, "keep") EXCEPT !.only = TRUE],
      Step(h[f.a], TRUE, x, "keep"),
      [Step(h[f.b], TRUE, x, "keep") EXCEPT !.prev = TRUE]>>

\* __neg__: lambda x: self(-x)
NegSteps(h, f, x) == <<Step(h[f.a], FALSE, NpNeg(x), "keep")>>

\* A variant of the negation's adjoint that does not negate: self.T(x).
NegTStepsPlain(h, f, x) == <<Step(h[f.a], TRUE, x, "keep")>>

\* __neg__: lambda x: self.T(-x)
NegTSteps(h, f, x) == <<Step(h[f.a], TRUE, NpNeg(x), "keep")>>

\* How many (block, piece) pairs zip(blocks, vsplit(x, idx)) yields.
ZipLen(blocks, idx) ==
    IF Len(blocks) < Len(idx) + 1 THEN Len(blocks) ELSE Len(idx) + 1

\* A variant of __horzcat.opFunction handing every block the first piece.
HorzcatStepsFirstPiece(h, L, f, x) ==
    [i \in 1..ZipLen(L[f.a], f.idx) |->
        Step(h[L[f.a][i]], FALSE, VsplitPiece(x, f.idx, 1),
             IF i = 1 THEN "keep" ELSE "add")]

\* __horzcat.opFunction: sum(b(v) for (b, v) in zip(horz_blocks,
\* vsplit(x, splitting_idx))).
HorzcatSteps(h, L, f, x) ==
    [i \in 1..ZipLen(L[f.a], f.idx) |->
        Step(h[L[f.a][i]], FALSE, VsplitPiece(x, f.idx, i),
             IF i = 1 THEN "keep" ELSE "add")]

\* A variant of __vertcat.opFunction taking the blocks last to first.
VertcatStepsReversed(h, L, f, x) ==
    [i \in 1..Len(L[f.a]) |-> Step(h[L[f.a][Len(L[f.a]) + 1 - i]], FALSE, x, "keep")]

\* __vertcat.opFunction: npvstack(b(x) for b in vert_blocks).
VertcatSteps(h, L, f, x) ==
    [i \in 1..Len(L[f.a]) |-> Step(h[L[f.a][i]], FALSE, x, "keep")]

\* blockDiag.forwardFunction: npvstack(b(v) for (b, v) in zip(blocks,
\* vsplit(x, forward_splitting_idx))).
DiagForwardSteps(h, L, f, x) ==
    [i \in 1..ZipLen(L[f.a], f.idx) |->
        Step(h[L[f.a][i]], FALSE, VsplitPiece(x, f.idx, i), "keep")]

\* A variant of blockDiag.adjointFunction applying b instead of b.T.
DiagAdjointStepsForward(h, L, f, x) ==
    [i \in 1..ZipLen(L[f.a], f.idx) |->
        Step(h[L[f.a][i]], FALSE, VsplitPiece(x, f.idx, i), "keep")]

\* blockDiag.adjointFunction: npvstack(b.T(v) for (b, v) in zip(blocks,
\* vsplit(x, adjoint_splitting_idx))).
DiagAdjointSteps(h, L, f, x) ==
    [i \in 1..ZipLen(L[f.a], f.idx) |->
        Step(h[L[f.a][i]], TRUE, VsplitPiece(x, f.idx, i), "keep")]

\* Whether the function was decorated with @matmat.
IsMatmat(f) == f.k \in {"horzcat", "vertcat", "diagF", "diagA"}

\* The steps of the closure f invoked on x.
Steps(h, L, f, x) ==
    CASE f.k = "add" -> AddSteps(h, f, x)
      [] f.k = "addT" -> AddTSteps(h, f, x)
      [] f.k = "sub" -> SubSteps(h, f, x)
      [] f.k = "subT" -> SubTSteps(h, f, x)
      [] f.k = "scal" -> ScalSteps(h, f, x)
      [] f.k = "scalT" -> ScalTSteps(h, f, x)
      [] f.k = "mul" -> MulSteps(h, f, x)
      [] f.k = "mulT" -> MulTSteps(h, f, x)
      [] f.k = "neg" -> NegSteps(h, f, x)
      [] f.k = "negT" -> NegTSteps(h, f, x)
      [] f.k = "horzcat" -> HorzcatSteps(h, L, f, x)
      [] f.k = "vertcat" -> VertcatSteps(h, L, f, x)
      [] f.k = "diagF" -> DiagForwardSteps(h, L, f, x)
      [] f.k = "diagA" -> DiagAdjointSteps(h, L, f, x)

RECURSIVE StackAll(_, _)
\* numpy.vstack of acc followed by the arrays vals; "ValueError" when a
\* trailing dimension disagrees.
StackAll(vals, acc) ==
    IF vals = <<>> THEN [err |-> "", val |-> acc]
    ELSE IF ~VstackAligned(acc, Head(vals)) THEN [err |-> "ValueError", val |-> NoVal]
    ELSE StackAll(Tail(vals), NpVstack2(acc, Head(vals)))

\* What the closure f returns once its steps gave vals: sum(()) is the int
\* 0, numpy.vstack of nothing raises, a sum or a composition returns its
\* last value.
Result(f, vals) ==
    IF f.k \in {"vertcat", "diagF", "diagA"}
    THEN IF vals = <<>> THEN [err |-> "ValueError", val |-> NoVal]
         ELSE StackAll(Tail(vals), AtLeast2d(Head(vals)))
    ELSE IF vals = <<>> THEN [err |-> "", val |-> PyZero]
    ELSE [err |-> "", val |-> vals[Len(vals)]]

\* m.dot(x) for the matrix m; numpy raises ValueError when the shapes are
\* not aligned.
ApplyDot(m, x) ==
    IF DotAligned(m, x) THEN Ok(NpDot(m, x), <<>>) ELSE Raise("ValueError", <<>>)

\* A variant of the result check looking at the rows only.
ResultRowsOk(result_shape, self_shape, x_shape) == result_shape[1] = self_shape[1]

\* The check __call__ makes on what forward returned.
ResultShapeOk(result_shape, self_shape, x_shape) ==
    result_shape = <<self_shape[1], x_shape[2]>>

\* __call__ after forward returned: r is forward's outcome, result_shape
\* the upgraded shape of what it returned.
CheckResult(op, x_shape, r, result_shape) ==
    IF result_shape.err # ""
    THEN [Raise(result_shape.err, r.calls) EXCEPT !.fret = <<r.val>>]
    ELSE IF ~ResultShapeOk(result_shape.shape, op.shape, x_shape.shape)
    THEN [Raise("DimensionMismatch", r.calls) EXCEPT !.fret = <<r.val>>]
    ELSE [Ok(r.val, r.calls) EXCEPT !.fret = <<r.val>>]

\* __call__ from the call of forward on: r is forward's outcome (an
\* exception it raised propagates; the int 0 has no shape attribute).
AfterForward(op, x_shape, r) ==
    IF r.err # "" THEN Raise(r.err, r.calls)
    ELSE IF ~IsNdarray(r.val)
    THEN [Raise("AttributeError", r.calls) EXCEPT !.fret = <<r.val>>]
    ELSE CheckResult(op, x_shape, r, UpgradeShapeToMatrix(r.val.shape))

\* One step s of a closure, acc being what the steps before left and r
\* the outcome of the step's application.  The operands of a + or a - have
\* passed __call__'s result check for one x, so they differ in shape only
\* when one is (n,) and the other (n, 1): numpy then broadcasts, a case the
\* operators modelled here do not produce and which is recorded as
\* "ValueError".
StepResult(s, acc, r, top) ==
    IF r.err # ""
    THEN [err |-> r.err, vals |-> acc.vals, calls |-> acc.calls \o r.calls]
    ELSE IF s.only THEN acc
    ELSE IF s.comb = "keep"
    THEN [err |-> "", vals |-> Append(acc.vals, r.val), calls |-> acc.calls \o r.calls]
    ELSE IF ~SameShape(top, r.val)
    THEN [err |-> "ValueError", vals |-> acc.vals, calls |-> acc.calls \o r.calls]
    ELSE [err |-> "",
          vals |-> [acc.vals EXCEPT ![Len(acc.vals)] =
                       IF s.comb = "add" THEN NpAdd(top, r.val) ELSE NpSub(top, r.val)],
          calls |-> acc.calls \o r.calls]

\* The value on top of the values kept (none: NoVal).
Top(vals) == IF vals = <<>> THEN NoVal ELSE vals[Len(vals)]

\* What a closure returns to its caller: g is what its steps left and res
\* the value built from them; under utilities.matmat's wrapper a rank-1 x
\* has its result ravelled.
Returned(f, x, g, res) ==
    IF g.err # "" THEN Raise(g.err, g.calls)
    ELSE IF res.err # "" THEN Raise(res.err, g.calls)
    ELSE IF IsMatmat(f) /\ Rank(x) = 1
    THEN Ok(IF IsNdarray(res.val) THEN NpRavel(res.val) ELSE Arr(<<1>>, res.val.data),
            g.calls)
    ELSE Ok(res.val, g.calls)

\* The outcome r of invoking f, its calls starting with f itself.
Invoked(f, r) == [r EXCEPT !.calls = <<f.id>> \o r.calls, !.fret = <<>>]

\* The operator a step applies: op, or op.T read now.
Target(s) == IF s.t THEN T(s.op) ELSE [err |-> "", obj |-> s.op]

RECURSIVE CallOp(_, _, _, _), Apply(_, _, _, _), Run(_, _, _, _, _),
          RunStep(_, _, _, _, _), Closure(_, _, _, _, _), Stepped(_, _, _, _, _, _)

\* LinearOperator.__call__ of the object op on x, with heap h and lists L.
CallOp(h, L, op, x) ==
    IF UpgradeShapeToMatrix(x.shape).err # ""
    THEN Raise(UpgradeShapeToMatrix(x.shape).err, <<>>)
    ELSE IF ~CheckInnerDims(op, x)
    THEN Raise("InnerDimensionMismatch", <<>>)
    ELSE AfterForward(op, UpgradeShapeToMatrix(x.shape), Apply(h, L, op.forward, x))

\* The application step s makes, on the operator target.
RunStep(h, L, s, acc, target) ==
    IF target.err # "" THEN Raise(target.err, <<>>)
    ELSE IF s.only THEN Ok(NoVal, <<>>)
    ELSE CallOp(h, L, target.obj, IF s.prev THEN Top(acc.vals) ELSE s.x)

\* Step i made, the steps after it.
Stepped(h, L, steps, i, acc, s) ==
    Run(h, L, steps, i + 1,
        StepResult(s, acc, RunStep(h, L, s, acc, Target(s)), Top(acc.vals)))

\* The steps from the i-th on; acc holds the exception raised so far, the
\* values kept and the functions invoked.
Run(h, L, steps, i, acc) ==
    IF i > Len(steps) \/ acc.err # "" THEN acc
    ELSE Stepped(h, L, steps, i, acc, steps[i])

\* The closure f on x, y being what its steps work on.
Closure(h, L, f, x, g) == Returned(f, x, g, Result(f, g.vals))

\* A closure invoked on x.  Under utilities.matmat's wrapper (dense input)
\* a rank-1 x goes in as a column.
ApplyClosure(h, L, f, x) ==
    Closure(h, L, f, x,
            Run(h, L,
                Steps(h, L, f, IF IsMatmat(f) /\ Rank(x) = 1 THEN ReshapeColumn(x) ELSE x),
                1, [err |-> "", vals |-> <<>>, calls |-> <<>>]))

\* Invoking the function f on x.
Apply(h, L, f, x) ==
    Invoked(f, CASE f.k = "dot" -> ApplyDot(Mats[f.a], x)
                 [] f.k = "Tdot" -> ApplyDot(NpTranspose(Mats[f.a]), x)
                 [] f.k = "const" -> Ok(Consts[f.a], <<>>)
                 [] f.k = "ident" -> Ok(x, <<>>)
                 [] f.k = "missing" -> Raise("MissingAdjoint", <<>>)
                 [] OTHER -> ApplyClosure(h, L, f, x))

\* self.T(x): the property T, then the call.
CallT(h, L, op, x) ==
    IF T(op).err # "" THEN Raise(T(op).err, <<>>) ELSE CallOp(h, L, T(op).obj, x)

(***************************************************************************)
(* The combinators.  Each gives [err, h, L, ret, out]: the exception       *)
(* raised ("" when none), the heap and the lists afterwards, the identity  *)
(* of the operator returned (0 when none) and, when an array is returned   *)
(* instead, the outcome of the application that produced it.               *)
(***************************************************************************)
Made(err, h, L, ret) ==
    [err |-> err, h |-> h, L |-> L, ret |-> ret, out |-> Ok(NoVal, <<>>)]

\* The object a successful constructor call c leaves on the heap.
New(h, L, c) ==
    IF c.err # "" THEN Made(c.err, h, L, 0)
    ELSE Made("", Append(h, c.obj), L, Len(h) + 1)

ShapeOf(op) == PyShape(op.shape[1], op.shape[2])

\* A.T, kept by the caller.
Transpose(h, L, i) == New(h, L, T(h[i]))

\* __add__
Add(h, L, i, j) ==
    LET p == Len(h) + 1
    IN  IF ~CheckSameDims(h[i], h[j]) THEN Made("AllDimensionMismatch", h, L, 0)
        ELSE New(h, L, LinearOperator(ShapeOf(h[i]),
                                      Fn("add", <<"add", p>>, i, j, <<>>),
                                      Fn("addT", <<"addT", p>>, i, j, <<>>)))

\* __sub__
Sub(h, L, i, j) ==
    LET p == Len(h) + 1
    IN  IF ~CheckSameDims(h[i], h[j]) THEN Made("AllDimensionMismatch", h, L, 0)
        ELSE New(h, L, LinearOperator(ShapeOf(h[i]),
                                      Fn("sub", <<"sub", p>>, i, j, <<>>),
                                      Fn("subT", <<"subT", p>>, i, j, <<>>)))

\* __scaledmul__
ScaledMul(h, L, i, k) ==
    LET p == Len(h) + 1
    IN  New(h, L, LinearOperator(ShapeOf(h[i]),
                                 Fn("scal", <<"scal", p>>, i, k, <<>>),
                                 Fn("scalT", <<"scalT", p>>, i, k, <<>>)))

\* A right operand of * as Python sees it: a Number, a LinearOperator (by
\* identity) or a raw array.
Num(k) == [t |-> "num", v |-> k]

Op(i) == [t |-> "op", v |-> i]

Raw(x) == [t |-> "arr", v |-> x]

\* What a combinator call that applied an operator gives: o is the outcome.
Applied(h, L, o) == [Made(o.err, h, L, 0) EXCEPT !.out = o]

\* __mul__: self * other.  A raw array has no result operator: out is the
\* outcome of self(other).
Mul(h, L, i, other) ==
    LET p == Len(h) + 1
    IN  IF other.t = "num" THEN ScaledMul(h, L, i, other.v)
        ELSE IF other.t = "arr" /\ Rank(other.v) = 0
        THEN Made("IndexError", h, L, 0)
        ELSE IF ~CheckInnerDims(h[i], IF other.t = "op" THEN h[other.v] ELSE other.v)
        THEN Made("InnerDimensionMismatch", h, L, 0)
        ELSE IF other.t = "op"
        THEN New(h, L, LinearOperator(PyShape(h[i].shape[1], h[other.v].shape[2]),
                                      Fn("mul", <<"mul", p>>, i, other.v, <<>>),
                                      Fn("mulT", <<"mulT", p>>, i, other.v, <<>>)))
        ELSE Applied(h, L, CallOp(h, L, h[i], other.v))

\* __rmul__: other * self, reached when other cannot multiply by itself.
Rmul(h, L, i, other) ==
    IF other.t = "num" THEN ScaledMul(h, L, i, other.v)
    ELSE Made("TypeError", h, L, 0)

RECURSIVE Reduce(_, _, _, _)
\* reduce(mul, repeat(self, power)): acc holds the product so far and n
\* factors are still to come.
Reduce(acc, i, n, L) ==
    IF n = 0 \/ acc.err # "" THEN acc
    ELSE Reduce(Mul(acc.h, L, acc.ret, Op(i)), i, n - 1, L)

\* A variant of __pow__ multiplying once too often.
PowOneMore(h, L, i, power) ==
    IF ~(power > 0) THEN Made("AssertionError", h, L, 0)
    ELSE Reduce(Made("", h, L, i), i, power, L)

\* __pow__ with an int exponent.
Pow(h, L, i, power) ==
    IF ~(power > 0) THEN Made("AssertionError", h, L, 0)
    ELSE Reduce(Made("", h, L, i), i, power - 1, L)

\* A variant of __neg__ negating the operand in place and returning it.
NegInPlace(h, L, i) ==
    Made("", [h EXCEPT ![i] = [@ EXCEPT !.forward = Fn("neg", <<"neg", i>>, i, 0, <<>>),
                                        !.adjoint = Fn("negT", <<"negT", i>>, i, 0, <<>>)]],
         L, i)

\* __neg__
Neg(h, L, i) ==
    LET p == Len(h) + 1
    IN  New(h, L, LinearOperator(ShapeOf(h[i]),
                                 Fn("neg", <<"neg", p>>, i, 0, <<>>),
                                 Fn("negT", <<"negT", p>>, i, 0, <<>>)))

\* __copy__
Copy(h, L, i) == New(h, L, LinearOperator(ShapeOf(h[i]), h[i].forward, h[i].adjoint))

\* A variant of __pos__ whose copy is built without the adjoint.
PosForgetsAdjoint(h, L, i) == New(h, L, LinearOperator(ShapeOf(h[i]), h[i].forward, NoneFn))

\* __pos__
Pos(h, L, i) == Copy(h, L, i)

\* A variant of convert.toLinearOperator passing m.dot as the adjoint too.
ToLinearOperatorDotTwice(h, L, n) ==
    LET m == Mats[n]
    IN  IF Rank(m) = 1 THEN Made("ValueError(rank)", h, L, 0)
        ELSE IF Rank(m) > 2 THEN Made("ValueError(rank)", h, L, 0)
        ELSE New(h, L, LinearOperator(
                 [tuple |-> TRUE, elems |-> [d \in 1..Rank(m) |-> PyInt(m.shape[d])]],
                 DotFn(n), DotFn(n)))

\* convert.toLinearOperator of the n-th matrix.
ToLinearOperator(h, L, n) ==
    LET m == Mats[n]
    IN  IF Rank(m) = 1 THEN Made("ValueError(rank)", h, L, 0)
        ELSE IF Rank(m) > 2 THEN Made("ValueError(rank)", h, L, 0)
        ELSE New(h, L, LinearOperator(
                 [tuple |-> TRUE, elems |-> [d \in 1..Rank(m) |-> PyInt(m.shape[d])]],
                 DotFn(n), TDotFn(n, Len(h) + 1)))

RECURSIVE TransposeAll(_, _, _)
\* [b.T for b in blocks]: the transposes join the heap one by one; ids
\* holds those made so far.
TransposeAll(blocks, acc, ids) ==
    IF blocks = <<>> \/ acc.err # "" THEN [acc |-> acc, ids |-> ids]
    ELSE LET t == Transpose(acc.h, acc.L, Head(blocks))
         IN  TransposeAll(Tail(blocks), t, IF t.err = "" THEN Append(ids, t.ret) ELSE ids)

\* A variant of hstack's cols taking the first block's.
HstackColsOfFirst(h, blocks) == h[blocks[1]].shape[2]

\* hstack's cols: sum(h.shape[1] for h in blocks)
HstackCols(h, blocks) ==
    SumTo([b \in 1..Len(blocks) |-> h[blocks[b]].shape[2]], Len(blocks))

\* A variant of block.hstack that returns the only block of a one-element
\* list as it is.
HstackShortCircuit(h, L, l) ==
    LET blocks == L[l]
        rows == h[blocks[1]].shape[1]
        cols == HstackCols(h, blocks)
        splitting_idx == Cumsum([b \in 1..Len(blocks) |-> h[blocks[b]].shape[2]])
        ts == TransposeAll(blocks, Made("", h, L, 0), <<>>)
        p == Len(ts.acc.h) + 1
        L2 == Append(L, ts.ids)
    IN  IF Len(blocks) = 0 THEN Made("ValueError(empty)", h, L, 0)
        ELSE IF Len(blocks) = 1 THEN Made("", h, L, blocks[1])
        ELSE IF \E b \in 1..Len(blocks) : h[blocks[b]].shape[1] # rows
        THEN Made("ValueError(row mismatch)", h, L, 0)
        ELSE IF ts.acc.err # "" THEN Made(ts.acc.err, h, L, 0)
        ELSE New(ts.acc.h, L2, LinearOperator(PyShape(rows, cols),
                     Fn("horzcat", <<"horzcat", p>>, l, 0, splitting_idx),
                     Fn("vertcat", <<"vertcat", p>>, Len(L2), 0, <<>>)))

\* block.hstack of the list l.
Hstack(h, L, l) ==
    LET blocks == L[l]
        rows == h[blocks[1]].shape[1]
        cols == HstackCols(h, blocks)
        splitting_idx == Cumsum([b \in 1..Len(blocks) |-> h[blocks[b]].shape[2]])
        ts == TransposeAll(blocks, Made("", h, L, 0), <<>>)
        p == Len(ts.acc.h) + 1
        L2 == Append(L, ts.ids)
    IN  IF Len(blocks) = 0 THEN Made("ValueError(empty)", h, L, 0)
        ELSE IF \E b \in 1..Len(blocks) : h[blocks[b]].shape[1] # rows
        THEN Made("ValueError(row mismatch)", h, L, 0)
        ELSE IF ts.acc.err # "" THEN Made(ts.acc.err, h, L, 0)
        ELSE New(ts.acc.h, L2, LinearOperator(PyShape(rows, cols),
                     Fn("horzcat", <<"horzcat", p>>, l, 0, splitting_idx),
                     Fn("vertcat", <<"vertcat", p>>, Len(L2), 0, <<>>)))

\* A variant of block.vstack without the column check.
VstackUnchecked(h, L, l) ==
    LET blocks == L[l]
        rows == SumTo([b \in 1..Len(blocks) |-> h[blocks[b]].shape[1]], Len(blocks))
        cols == h[blocks[1]].shape[2]
        ts == TransposeAll(blocks, Made("", h, L, 0), <<>>)
        splitting_idx == Cumsum([b \in 1..Len(ts.ids) |-> ts.acc.h[ts.ids[b]].shape[2]])
        p == Len(ts.acc.h) + 1
        L2 == Append(L, ts.ids)
    IN  IF Len(blocks) = 0 THEN Made("ValueError(empty)", h, L, 0)
        ELSE IF ts.acc.err # "" THEN Made(ts.acc.err, h, L, 0)
        ELSE New(ts.acc.h, L2, LinearOperator(PyShape(rows, cols),
                     Fn("vertcat", <<"vertcat", p>>, l, 0, <<>>),
                     Fn("horzcat", <<"horzcat", p>>, Len(L2), 0, splitting_idx)))

\* block.vstack of the list l.
Vstack(h, L, l) ==
    LET blocks == L[l]
        rows == SumTo([b \in 1..Len(blocks) |-> h[blocks[b]].shape[1]], Len(blocks))
        cols == h[blocks[1]].shape[2]
        ts == TransposeAll(blocks, Made("", h, L, 0), <<>>)
        splitting_idx == Cumsum([b \in 1..Len(ts.ids) |-> ts.acc.h[ts.ids[b]].shape[2]])
        p == Len(ts.acc.h) + 1
        L2 == Append(L, ts.ids)
    IN  IF Len(blocks) = 0 THEN Made("ValueError(empty)", h, L, 0)
        ELSE IF \E b \in 1..Len(blocks) : h[blocks[b]].shape[2] # cols
        THEN Made("ValueError(column mismatch)", h, L, 0)
        ELSE IF ts.acc.err # "" THEN Made(ts.acc.err, h, L, 0)
        ELSE New(ts.acc.h, L2, LinearOperator(PyShape(rows, cols),
                     Fn("vertcat", <<"vertcat", p>>, l, 0, <<>>),
                     Fn("horzcat", <<"horzcat", p>>, Len(L2), 0, splitting_idx)))

\* A variant of bmat's row collapse that stops after the first row.
HstackRowsFirstOnly(rows, acc, ids) ==
    IF rows = <<>> THEN [acc |-> acc, ids |-> ids]
    ELSE LET r == Hstack(acc.h, acc.L, Head(rows))
         IN  [acc |-> r, ids |-> IF r.err = "" THEN <<r.ret>> ELSE <<>>]

RECURSIVE HstackRows(_, _, _)
\* [hstack(row) for row in blocks]
HstackRows(rows, acc, ids) ==
    IF rows = <<>> \/ acc.err # "" THEN [acc |-> acc, ids |-> ids]
    ELSE LET r == Hstack(acc.h, acc.L, Head(rows))
         IN  HstackRows(Tail(rows), r, IF r.err = "" THEN Append(ids, r.ret) ELSE ids)

\* block.bmat of the rows (lists) named by rowlists.
Bmat(h, L, rowlists) ==
    LET rs == HstackRows(rowlists, Made("", h, L, 0), <<>>)
        L2 == Append(rs.acc.L, rs.ids)
        v == Vstack(rs.acc.h, L2, Len(L2))
    IN  IF Len(rowlists) = 0 THEN Made("ValueError(empty)", h, L, 0)
        ELSE IF rs.acc.err # "" THEN Made(rs.acc.err, h, L, 0)
        ELSE IF v.err # "" THEN Made(v.err, h, L, 0)
        ELSE v

\* A variant of block.blockDiag that asks for every block's adjoint first.
BlockDiagNeedsAdjoints(h, L, l) ==
    LET blocks == L[l]
        rows == SumTo([b \in 1..Len(blocks) |-> h[blocks[b]].shape[1]], Len(blocks))
        cols == SumTo([b \in 1..Len(blocks) |-> h[blocks[b]].shape[2]], Len(blocks))
        forward_splitting_idx == Cumsum([b \in 1..Len(blocks) |-> h[blocks[b]].shape[2]])
        adjoint_splitting_idx == Cumsum([b \in 1..Len(blocks) |-> h[blocks[b]].shape[1]])
        p == Len(h) + 1
    IN  IF Len(blocks) = 0 THEN Made("ValueError(empty)", h, L, 0)
        ELSE IF \E b \in 1..Len(blocks) : h[blocks[b]].adjoint = MissingAdjointFn
        THEN Made("MissingAdjoint", h, L, 0)
        ELSE New(h, L, LinearOperator(PyShape(rows, cols),
                     Fn("diagF", <<"diagF", p>>, l, 0, forward_splitting_idx),
                     Fn("diagA", <<"diagA", p>>, l, 0, adjoint_splitting_idx)))

\* block.blockDiag of the list l.
BlockDiag(h, L, l) ==
    LET blocks == L[l]
        rows == SumTo([b \in 1..Len(blocks) |-> h[blocks[b]].shape[1]], Len(blocks))
        cols == SumTo([b \in 1..Len(blocks) |-> h[blocks[b]].shape[2]], Len(blocks))
        forward_splitting_idx == Cumsum([b \in 1..Len(blocks) |-> h[blocks[b]].shape[2]])
        adjoint_splitting_idx == Cumsum([b \in 1..Len(blocks) |-> h[blocks[b]].shape[1]])
        p == Len(h) + 1
    IN  IF Len(blocks) = 0 THEN Made("ValueError(empty)", h, L, 0)
        ELSE New(h, L, LinearOperator(PyShape(rows, cols),
                     Fn("diagF", <<"diagF", p>>, l, 0, forward_splitting_idx),
                     Fn("diagA", <<"diagA", p>>, l, 0, adjoint_splitting_idx)))

(***************************************************************************)
(* Actions: one per operation a script performs.  A run is a script: it    *)
(* goes on while no exception has propagated, and the value an application *)
(* returns is its result (applications change neither heap nor lists).     *)
(***************************************************************************)
Start ==
    [op |-> "start", args |-> <<>>, arg |-> NoVal, err |-> "", ret |-> 0,
     val |-> NoVal, calls |-> <<>>, fret |-> <<>>, n |-> 0]

Running ==
    last.err = "" /\ last.op \notin {"call", "toMatrix", "eq", "ne", "mularr", "dot"}

\* The state after the combinator call op(args, arg) gave m.
Done(op, args, arg, m) ==
    /\ heap' = m.h
    /\ lists' = m.L
    /\ last' = [op |-> op, args |-> args, arg |-> arg, err |-> m.err, ret |-> m.ret,
                val |-> m.out.val, calls |-> m.out.calls, fret |-> m.out.fret,
                n |-> last.n + 1]

\* LinearOperator(shape, f, a)
Construct(shape, f, a, bound) ==
    /\ Running
    /\ last.n < bound
    /\ Done("init", <<>>, [shape |-> shape, forward |-> f, adjoint |-> a],
            New(heap, lists, LinearOperator(shape, f, a)))

\* What `last` records of the application heap[i](x) with outcome o.
Called(i, x, o) ==
    [op |-> "call", args |-> <<i>>, arg |-> x, err |-> o.err, ret |-> 0,
     val |-> o.val, calls |-> o.calls, fret |-> o.fret, n |-> last.n + 1]

\* heap[i](x)
Call(i, x) ==
    /\ Running
    /\ last' = Called(i, x, CallOp(heap, lists, heap[i], x))
    /\ UNCHANGED <<heap, lists>>

\* heap[i].T
DoTranspose(i, bound) ==
    /\ Running
    /\ last.n < bound
    /\ Done("T", <<i>>, NoVal, Transpose(heap, lists, i))

\* heap[i] + heap[j]
DoAdd(i, j, bound) ==
    /\ Running
    /\ last.n < bound
    /\ Done("add", <<i, j>>, NoVal, Add(heap, lists, i, j))

\* heap[i] - heap[j]
DoSub(i, j, bound) ==
    /\ Running
    /\ last.n < bound
    /\ Done("sub", <<i, j>>, NoVal, Sub(heap, lists, i, j))

\* heap[i] * heap[j]
DoMul(i, j, bound) ==
    /\ Running
    /\ last.n < bound
    /\ Done("mul", <<i, j>>, NoVal, Mul(heap, lists, i, Op(j)))

\* heap[i] * k
DoMulNumber(i, k, bound) ==
    /\ Running
    /\ last.n < bound
    /\ Done("mulnum", <<i, k>>, NoVal, Mul(heap, lists, i, Num(k)))

\* k * heap[i]
DoRmulNumber(i, k, bound) ==
    /\ Running
    /\ last.n < bound
    /\ Done("rmulnum", <<i, k>>, NoVal, Rmul(heap, lists, i, Num(k)))

\* -heap[i]
DoNeg(i, bound) ==
    /\ Running
    /\ last.n < bound
    /\ Done("neg", <<i>>, NoVal, Neg(heap, lists, i))

\* +heap[i]
DoPos(i, bound) ==
    /\ Running
    /\ last.n < bound
    /\ Done("pos", <<i>>, NoVal, Pos(heap, lists, i))

\* copy.copy(heap[i])
DoCopy(i, bound) ==
    /\ Running
    /\ last.n < bound
    /\ Done("copy", <<i>>, NoVal, Copy(heap, lists, i))

\* heap[i] ** power
DoPow(i, power, bound) ==
    /\ Running
    /\ last.n < bound
    /\ Done("pow", <<i, power>>, NoVal, Pow(heap, lists, i, power))

\* toLinearOperator(Mats[n])
DoToLinearOperator(n, bound) ==
    /\ Running
    /\ last.n < bound
    /\ Done("toLinearOperator", <<n>>, NoVal, ToLinearOperator(heap, lists, n))

\* The lists of at most n operators of the heap h.
Blocks(h, n) == UNION {[1..k -> 1..Len(h)] : k \in 0..n}

\* hstack(blocks), blocks a list the script has just built.
DoHstack(n, size, bound) ==
    /\ Running
    /\ last.n < bound
    /\ Len(heap) <= size
    /\ \E blocks \in Blocks(heap, n) :
           Done("hstack", blocks, NoVal,
                Hstack(heap, Append(lists, blocks), Len(lists) + 1))

\* vstack(blocks)
DoVstack(n, size, bound) ==
    /\ Running
    /\ last.n < bound
    /\ Len(heap) <= size
    /\ \E blocks \in Blocks(heap, n) :
           Done("vstack", blocks, NoVal,
                Vstack(heap, Append(lists, blocks), Len(lists) + 1))

\* blockDiag(blocks)
DoBlockDiag(n, size, bound) ==
    /\ Running
    /\ last.n < bound
    /\ Len(heap) <= size
    /\ \E blocks \in Blocks(heap, n) :
           Done("blockDiag", blocks, NoVal,
                BlockDiag(heap, Append(lists, blocks), Len(lists) + 1))

RECURSIVE Flatten(_)
\* The blocks of the rows, row after row.
Flatten(rows) == IF rows = <<>> THEN <<>> ELSE Head(rows) \o Flatten(Tail(rows))

\* The lists of at most m rows of at most n operators of the heap h.
RowLists(h, n, m) == UNION {[1..k -> Blocks(h, n)] : k \in 0..m}

\* bmat(rows), the rows being lists the script has just built; last.arg
\* keeps the lengths of the rows.
DoBmat(n, m, size, bound) ==
    /\ Running
    /\ last.n < bound
    /\ Len(heap) <= size
    /\ \E rows \in RowLists(heap, n, m) :
           Done("bmat", Flatten(rows),
                Arr([r \in 1..Len(rows) |-> Len(rows[r])], <<>>),
                Bmat(heap, lists \o rows, [r \in 1..Len(rows) |-> Len(lists) + r]))

\* numpy.eye(n)
Eye(n) ==
    Arr(<<n, n>>, [p \in 1..(n * n) |-> IF (p - 1) \div n = (p - 1) % n THEN 1 ELSE 0])

\* convert.toMatrix(O) for a dense identity.
ToMatrix(h, L, op) == CallOp(h, L, op, Eye(op.shape[2]))

\* toMatrix(heap[i])
DoToMatrix(i) ==
    /\ Running
    /\ last' = [Called(i, Eye(heap[i].shape[2]), ToMatrix(heap, lists, heap[i]))
                   EXCEPT !.op = "toMatrix"]
    /\ UNCHANGED <<heap, lists>>

\* f != g for two callables: functions, lambdas and closures are equal to
\* themselves only, bound methods when they are the same method of the same
\* object; id tells these apart.
CallableNe(f, g) == f.id # g.id

\* A variant of __eq__ that does not compare the adjoints.
EqForwardOnly(a, b) ==
    IF a.shape # b.shape THEN FALSE
    ELSE IF CallableNe(a.forward, b.forward) THEN FALSE
    ELSE TRUE

\* __eq__
Eq(a, b) ==
    IF a.shape # b.shape THEN FALSE
    ELSE IF CallableNe(a.forward, b.forward) THEN FALSE
    ELSE IF CallableNe(a.adjoint, b.adjoint) THEN FALSE
    ELSE TRUE

\* __ne__
Ne(a, b) == ~Eq(a, b)

\* A Python bool as a value of `last`.
PyBool(b) == Arr(<<-2>>, <<IF b THEN 1 ELSE 0>>)

\* What `last` records of the comparison op of heap[i] and heap[j].
Compared(op, i, j, b) ==
    [op |-> op, args |-> <<i, j>>, arg |-> NoVal, err |-> "", ret |-> 0,
     val |-> PyBool(b), calls |-> <<>>, fret |-> <<>>, n |-> last.n + 1]

\* heap[i] == heap[j]
DoEq(i, j) ==
    /\ Running
    /\ last' = Compared("eq", i, j, Eq(heap[i], heap[j]))
    /\ UNCHANGED <<heap, lists>>

\* heap[i] != heap[j]
DoNe(i, j) ==
    /\ Running
    /\ last' = Compared("ne", i, j, Ne(heap[i], heap[j]))
    /\ UNCHANGED <<heap, lists>>

\* dot: return self*other
Dot(h, L, i, other) == Mul(h, L, i, other)

\* heap[i] * x for a raw array x
DoMulArray(i, x) ==
    /\ Running
    /\ Done("mularr", <<i>>, x, Mul(heap, lists, i, Raw(x)))

\* heap[i].dot(x) for a raw array x
DoDot(i, x) ==
    /\ Running
    /\ Done("dot", <<i>>, x, Dot(heap, lists, i, Raw(x)))

(***************************************************************************)
(* SpecApply: operators built straight from the constructor, kernels that  *)
(* may return anything, and their application.                             *)
(***************************************************************************)
PyFloat(v) == [t |-> "float", v |-> v]

PyStr == [t |-> "str", v |-> 0]

\* Shape arguments: (2, 2), (1, 2), (3, 2), then (0, 1), (1, -1), ("a", 1),
\* (1, 1.0), (2, 2, 2), (2,) and the list [2, 2].
ShapeArgs ==
    { PyShape(2, 2), PyShape(1, 2), PyShape(3, 2), PyShape(0, 1), PyShape(1, -1),
      [tuple |-> TRUE, elems |-> <<PyStr, PyInt(1)>>],
      [tuple |-> TRUE, elems |-> <<PyInt(1), PyFloat(1)>>],
      [tuple |-> TRUE, elems |-> <<PyInt(2), PyInt(2), PyInt(2)>>],
      [tuple |-> TRUE, elems |-> <<PyInt(2)>>],
      [tuple |-> FALSE, elems |-> <<PyInt(2), PyInt(2)>>] }

Kernels == {ConstFn(n) : n \in 1..Len(Consts)} \cup {IdentFn, DotFn(1)}

\* Arrays of rank 0, 1, 2 and 3.
ApplyInputs ==
    { Arr(<<>>, <<3>>), Arr(<<2>>, <<1, 2>>), Arr(<<3>>, <<1, 2, 3>>),
      Arr(<<2, 1>>, <<1, 2>>), Arr(<<2, 2>>, <<1, 0, 2, 1>>),
      Arr(<<3, 2>>, <<1, 0, 2, 1, 0, 0>>), Arr(<<1, 2>>, <<1, 2>>),
      Arr(<<2, 1, 1>>, <<1, 2>>), Arr(<<3, 1, 1>>, <<1, 2, 3>>) }

InitApply == heap = <<>> /\ lists = <<>> /\ last = Start

NextApply ==
    \/ \E shape \in ShapeArgs, f \in Kernels : Construct(shape, f, NoneFn, MaxApplyOps)
    \/ \E i \in 1..Len(heap), x \in ApplyInputs : Call(i, x)
    \/ \E i \in 1..Len(heap), x \in ApplyInputs : DoMulArray(i, x)
    \/ \E i \in 1..Len(heap), x \in ApplyInputs : DoDot(i, x)

SpecApply == InitApply /\ [][NextApply]_vars

(***************************************************************************)
(* Spec: the operator algebra over leaf operators lifted from matrices     *)
(* (and one leaf built without an adjoint).                                *)
(***************************************************************************)
RECURSIVE Lift(_)
\* The heap after toLinearOperator of the first n matrices.
Lift(n) == IF n = 0 THEN <<>> ELSE ToLinearOperator(Lift(n - 1), <<>>, n).h

\* The leaves: A (2x2), C (1x2), D (2x1), B (2x2) lifted from Mats, and
\* LinearOperator((2, 2), Mats[1].dot), which has no adjoint.
Leaves ==
    New(Lift(4), <<>>, LinearOperator(PyShape(2, 2), DotFn(1), NoneFn)).h

Scalars == {-1, 2}

Inputs ==
    { Arr(<<2>>, <<1, 2>>), Arr(<<1>>, <<3>>), Arr(<<2, 2>>, <<1, 0, 2, 1>>),
      Arr(<<1, 2>>, <<1, 2>>), Arr(<<3>>, <<1, 2, 3>>) }

Init == heap = Leaves /\ lists = <<>> /\ last = Start

Next ==
    \/ \E i \in 1..Len(heap) : DoTranspose(i, MaxSteps)
    \/ \E i, j \in 1..Len(heap) : DoAdd(i, j, MaxSteps)
    \/ \E i, j \in 1..Len(heap) : DoSub(i, j, MaxSteps)
    \/ \E i, j \in 1..Len(heap) : DoMul(i, j, MaxSteps)
    \/ \E i \in 1..Len(heap), k \in Scalars : DoMulNumber(i, k, MaxSteps)
    \/ \E i \in 1..Len(heap), k \in Scalars : DoRmulNumber(i, k, MaxSteps)
    \/ \E i \in 1..Len(heap), x \in Inputs : Call(i, x)

Spec == Init /\ [][Next]_vars

(***************************************************************************)
(* SpecAll: every way of obtaining an operator (constructor, combinators,  *)
(* block builders), starting from the leaves.                              *)
(***************************************************************************)
MaxAllSteps == 2

MaxBlocks == 2

\* bmat is given at most this many rows.
MaxBmatRows == 2

\* The block builders take their blocks from heaps of at most this size.
MaxBlockHeap == 4

\* Three leaves: A (2x2), C (1x2) and D (2x1).
InitAll == heap = Lift(3) /\ lists = <<>> /\ last = Start

NextAll ==
    \/ \E shape \in ShapeArgs : Construct(shape, IdentFn, NoneFn, MaxAllSteps)
    \/ \E n \in 1..Len(Mats) : DoToLinearOperator(n, MaxAllSteps)
    \/ \E i \in 1..Len(heap) : DoTranspose(i, MaxAllSteps)
    \/ \E i, j \in 1..Len(heap) : DoAdd(i, j, MaxAllSteps)
    \/ \E i, j \in 1..Len(heap) : DoSub(i, j, MaxAllSteps)
    \/ \E i, j \in 1..Len(heap) : DoMul(i, j, MaxAllSteps)
    \/ \E i \in 1..Len(heap), k \in Scalars : DoMulNumber(i, k, MaxAllSteps)
    \/ \E i \in 1..Len(heap), k \in Scalars : DoRmulNumber(i, k, MaxAllSteps)
    \/ \E i \in 1..Len(heap), power \in -1..MaxPow : DoPow(i, power, MaxAllSteps)
    \/ \E i \in 1..Len(heap) : DoNeg(i, MaxAllSteps)
    \/ \E i \in 1..Len(heap) : DoPos(i, MaxAllSteps)
    \/ \E i \in 1..Len(heap) : DoCopy(i, MaxAllSteps)
    \/ DoHstack(MaxBlocks, MaxBlockHeap, MaxAllSteps)
    \/ DoVstack(MaxBlocks, MaxBlockHeap, MaxAllSteps)
    \/ DoBlockDiag(MaxBlocks, MaxBlockHeap, MaxAllSteps)
    \/ DoBmat(MaxBlocks, MaxBmatRows, MaxBlockHeap, MaxAllSteps)

SpecAll == InitAll /\ [][NextAll]_vars

(***************************************************************************)
(* SpecBlock: the block builders and the conversions over four matrix      *)
(* leaves, with the applications and toMatrix of what they build.          *)
(***************************************************************************)
MaxBlockSteps == 2

\* Inputs of length 1 to 4, as vectors and as matrices.
BlockInputs ==
    Inputs \cup { Arr(<<4>>, <<1, 2, 3, 4>>), Arr(<<3, 2>>, <<1, 0, 2, 1, 0, 3>>),
                  Arr(<<4, 2>>, <<1, 0, 2, 1, 0, 3, 1, 1>>) }

\* Four leaves: A (2x2), C (1x2), D (2x1) and B (2x2).
InitBlock == heap = Lift(4) /\ lists = <<>> /\ last = Start

NextBlock ==
    \/ \E n \in 1..Len(Mats) : DoToLinearOperator(n, MaxBlockSteps)
    \/ \E i \in 1..Len(heap) : DoTranspose(i, MaxBlockSteps)
    \/ DoHstack(MaxBlocks, MaxBlockHeap, MaxBlockSteps)
    \/ DoVstack(MaxBlocks, MaxBlockHeap, MaxBlockSteps)
    \/ DoBlockDiag(MaxBlocks, MaxBlockHeap, MaxBlockSteps)
    \/ DoBmat(MaxBlocks, MaxBmatRows, MaxBlockHeap, MaxBlockSteps)
    \/ \E i \in 1..Len(heap), x \in BlockInputs : Call(i, x)
    \/ \E i \in 1..Len(heap) : DoToMatrix(i)

SpecBlock == InitBlock /\ [][NextBlock]_vars

(***************************************************************************)
(* SpecEq: operators obtained in the ways that share or do not share       *)
(* callables (constructor, copy, transpose, sum, toLinearOperator), and    *)
(* their comparison.                                                       *)
(***************************************************************************)
MaxEqSteps == 2

\* (4, 4), (5, 4) of the equality test scaled down, and an invalid shape.
EqShapes == {PyShape(2, 2), PyShape(1, 2), PyShape(0, 1)}

InitEq == heap = Leaves /\ lists = <<>> /\ last = Start

NextEq ==
    \/ \E shape \in EqShapes, f \in {IdentFn, DotFn(1)}, a \in {IdentFn, NoneFn} :
           Construct(shape, f, a, MaxEqSteps)
    \/ \E n \in 1..Len(Mats) : DoToLinearOperator(n, MaxEqSteps)
    \/ \E i \in 1..Len(heap) : DoTranspose(i, MaxEqSteps)
    \/ \E i \in 1..Len(heap) : DoCopy(i, MaxEqSteps)
    \/ \E i \in 1..Len(heap) : DoPos(i, MaxEqSteps)
    \/ \E i, j \in 1..Len(heap) : DoAdd(i, j, MaxEqSteps)
    \/ \E i, j \in 1..Len(heap) : DoEq(i, j)
    \/ \E i, j \in 1..Len(heap) : DoNe(i, j)

SpecEq == InitEq /\ [][NextEq]_vars

(***************************************************************************)
(* SpecOne: operators built from user-written kernels, the stacks of one   *)
(* such operator, their transposes and their application.                  *)
(***************************************************************************)
MaxOneSteps == 3

\* The stacks of SpecOne take lists of at most this many blocks.
MaxOneBlocks == 1

\* The operators are built first: stacks are made of the first operator.
MaxOneHeap == 1

\* Calls of a matmat-wrapped kernel a run of SpecMatmat makes.
MaxMatmatCalls == 2

\* Builder calls and list operations a run of SpecList makes.
MaxListSteps == 2

\* Combinator calls a run of SpecAdj makes, and the heap size up to which
\* it calls a block builder.
MaxAdjSteps == 2

MaxAdjHeap == 4

OneShapes == {PyShape(2, 2), PyShape(1, 2)}

\* Adjoint arguments: a kernel, or None.
OneAdjoints == {IdentFn, ConstFn(2), DotFn(1), NoneFn}

InitOne == heap = <<>> /\ lists = <<>> /\ last = Start

NextOne ==
    \/ \E shape \in OneShapes, f \in Kernels, a \in OneAdjoints :
           /\ heap = <<>>
           /\ Construct(shape, f, a, MaxOneSteps)
    \/ DoHstack(MaxOneBlocks, MaxOneHeap, MaxOneSteps)
    \/ DoVstack(MaxOneBlocks, MaxOneHeap, MaxOneSteps)
    \/ \E i \in 1..Len(heap) : DoTranspose(i, MaxOneSteps)
    \/ \E i \in 1..Len(heap), x \in ApplyInputs : Call(i, x)

SpecOne == InitOne /\ [][NextOne]_vars

(***************************************************************************)
(* SpecMatmat: utilities.matmat wrapping a user-written kernel, the        *)
(* wrapper called directly.  An argument is an array held dense (an        *)
(* ndarray) or as a scipy.sparse matrix; `last` records the kernel wrapped *)
(* (args), the argument (arg), the arguments the kernel received (calls),  *)
(* what it returned (fret) and what the wrapper returned (val).            *)
(***************************************************************************)
Dense(a) == [sparse |-> FALSE, a |-> a]

SparseMatrix(a) == [sparse |-> TRUE, a |-> a]

\* f(y) for a kernel f: what it received, and its outcome.  A kernel that
\* returns its argument returns the very object received, a constant one an
\* ndarray, and m.dot the product with a dense y.
KernelCall(f, y) ==
    [recv |-> y,
     err |-> IF f.k = "dot" THEN ApplyDot(Mats[f.a], y.a).err ELSE "",
     val |-> CASE f.k = "ident" -> y
               [] f.k = "const" -> Dense(Consts[f.a])
               [] OTHER -> Dense(ApplyDot(Mats[f.a], y.a).val)]

\* wrapper: res = f(y) has been evaluated; a rank-1 x has it ravelled.
MatmatReturn(x, r) ==
    IF r.err # "" THEN [err |-> r.err, val |-> Dense(NoVal), calls |-> <<r.recv>>, fret |-> <<>>]
    ELSE [err |-> "",
          val |-> IF Rank(x.a) = 1 THEN Dense(NpRavel(r.val.a)) ELSE r.val,
          calls |-> <<r.recv>>, fret |-> <<r.val>>]

\* A variant of the wrapper handing a rank-1 input to f as it came.
MatmatNoColumn(f, x) ==
    IF x.sparse THEN [err |-> KernelCall(f, x).err, val |-> KernelCall(f, x).val,
                      calls |-> <<x>>,
                      fret |-> IF KernelCall(f, x).err = "" THEN <<KernelCall(f, x).val>>
                               ELSE <<>>]
    ELSE MatmatReturn(x, KernelCall(f, x))

\* matmat(f)(x): a sparse x goes to f as it is and f's result comes back as
\* it is; a rank-1 ndarray goes in as a column.
Matmat(f, x) ==
    IF x.sparse THEN [err |-> KernelCall(f, x).err, val |-> KernelCall(f, x).val,
                      calls |-> <<x>>,
                      fret |-> IF KernelCall(f, x).err = "" THEN <<KernelCall(f, x).val>>
                               ELSE <<>>]
    ELSE MatmatReturn(x, KernelCall(f, IF Rank(x.a) = 1 THEN Dense(ReshapeColumn(x.a))
                                                        ELSE x))

\* matmat(f)(x), one more call of a script.
DoMatmat(f, x) ==
    /\ last.err = ""
    /\ last.n < MaxMatmatCalls
    /\ last' = [op |-> "matmat", args |-> <<f>>, arg |-> x, err |-> Matmat(f, x).err,
                ret |-> 0, val |-> Matmat(f, x).val, calls |-> Matmat(f, x).calls,
                fret |-> Matmat(f, x).fret, n |-> last.n + 1]
    /\ UNCHANGED <<heap, lists>>

\* Dense arrays of rank 0 to 3, a (1, 1) one among them.
MatmatDense == ApplyInputs \cup {Arr(<<1, 1>>, <<4>>), Arr(<<1>>, <<4>>)}

\* scipy.sparse matrices (always 2-D).
MatmatSparse ==
    { Arr(<<2, 2>>, <<1, 0, 0, 1>>), Arr(<<1, 1>>, <<4>>), Arr(<<2, 1>>, <<0, 2>>) }

\* Kernels a sparse matrix is given to: the ones that do no arithmetic
\* with it.
SparseKernels == {ConstFn(n) : n \in 1..Len(Consts)} \cup {IdentFn}

InitMatmat == heap = <<>> /\ lists = <<>> /\ last = Start

NextMatmat ==
    \/ \E f \in Kernels, a \in MatmatDense : DoMatmat(f, Dense(a))
    \/ \E f \in SparseKernels, a \in MatmatSparse : DoMatmat(f, SparseMatrix(a))

SpecMatmat == InitMatmat /\ [][NextMatmat]_vars

(***************************************************************************)
(* SpecList: a script that builds a block operator from a list it holds,   *)
(* then changes that list (the closures of the builders hold the list      *)
(* object itself) and applies the operators.                               *)
(***************************************************************************)
ListOps == {"append", "pop", "setitem"}

\* The script still holds the list it built the block operator from.
HoldsList == last.err = "" /\ last.op \in {"hstack", "vstack", "blockDiag"} \cup ListOps

\* That list: hstack and vstack made one more list after it (the
\* transposes), blockDiag none.
HeldList ==
    IF last.op \in {"hstack", "vstack"} THEN Len(lists) - 1
    ELSE IF last.op = "blockDiag" THEN Len(lists)
    ELSE last.args[1]

\* The state after the list operation op on the list l, leaving it as now.
ListDone(op, l, args, err, now) ==
    /\ lists' = [lists EXCEPT ![l] = now]
    /\ last' = [Start EXCEPT !.op = op, !.args = <<l>> \o args, !.err = err,
                             !.n = last.n + 1]
    /\ UNCHANGED heap

\* ops.append(heap[j])
DoListAppend(j, bound) ==
    /\ HoldsList
    /\ last.n < bound
    /\ ListDone("append", HeldList, <<j>>, "", Append(lists[HeldList], j))

\* ops.pop()
DoListPop(bound) ==
    /\ HoldsList
    /\ last.n < bound
    /\ IF lists[HeldList] = <<>>
       THEN ListDone("pop", HeldList, <<>>, "IndexError", <<>>)
       ELSE ListDone("pop", HeldList, <<>>, "",
                     SubSeq(lists[HeldList], 1, Len(lists[HeldList]) - 1))

\* ops[k - 1] = heap[j]
DoListSet(k, j, bound) ==
    /\ HoldsList
    /\ last.n < bound
    /\ IF k > Len(lists[HeldList])
       THEN ListDone("setitem", HeldList, <<k, j>>, "IndexError", lists[HeldList])
       ELSE ListDone("setitem", HeldList, <<k, j>>, "",
                     [lists[HeldList] EXCEPT ![k] = j])

\* The leaves A (2x2), C (1x2), D (2x1) and B (2x2); the script puts leaves
\* into its list (a list holding the operator built from it would make the
\* operator's application call itself without end).
ListLeaves == Lift(4)

InitList == heap = ListLeaves /\ lists = <<>> /\ last = Start

NextList ==
    \/ DoHstack(MaxBlocks, MaxBlockHeap, MaxListSteps)
    \/ DoVstack(MaxBlocks, MaxBlockHeap, MaxListSteps)
    \/ DoBlockDiag(MaxBlocks, MaxBlockHeap, MaxListSteps)
    \/ \E j \in 1..Len(ListLeaves) : DoListAppend(j, MaxListSteps)
    \/ DoListPop(MaxListSteps)
    \/ \E k \in 1..MaxBlocks, j \in 1..Len(ListLeaves) : DoListSet(k, j, MaxListSteps)
    \/ \E i \in 1..Len(heap) : DoTranspose(i, MaxListSteps + 1)
    \/ \E i \in 1..Len(heap), x \in BlockInputs : Call(i, x)

SpecList == InitList /\ [][NextList]_vars

(***************************************************************************)
(* SpecAdj: the combinators over operators with adjoints: A (2x2) and      *)
(* C (1x2) lifted from matrices, and an operator with A's forward whose    *)
(* adjoint is the adjoint of 2*A, twice A's true adjoint.                  *)
(***************************************************************************)
\* LinearOperator(A.shape, A._forward, (2*A)._adjoint), after A and C.
AdjLeaves ==
    New(Lift(2), <<>>,
        LinearOperator(PyShape(2, 2), DotFn(1), Fn("scalT", <<"scalT", 3>>, 1, 2, <<>>))).h

InitAdj == heap = AdjLeaves /\ lists = <<>> /\ last = Start

NextAdj ==
    \/ \E i \in 1..Len(heap) : DoTranspose(i, MaxAdjSteps)
    \/ \E i, j \in 1..Len(heap) : DoAdd(i, j, MaxAdjSteps)
    \/ \E i, j \in 1..Len(heap) : DoSub(i, j, MaxAdjSteps)
    \/ \E i, j \in 1..Len(heap) : DoMul(i, j, MaxAdjSteps)
    \/ \E i \in 1..Len(heap), k \in Scalars : DoMulNumber(i, k, MaxAdjSteps)
    \/ \E i \in 1..Len(heap), k \in Scalars : DoRmulNumber(i, k, MaxAdjSteps)
    \/ \E i \in 1..Len(heap), power \in 0..MaxPow : DoPow(i, power, MaxAdjSteps)
    \/ \E i \in 1..Len(heap) : DoNeg(i, MaxAdjSteps)
    \/ DoHstack(MaxBlocks, MaxAdjHeap, MaxAdjSteps)
    \/ DoVstack(MaxBlocks, MaxAdjHeap, MaxAdjSteps)
    \/ DoBlockDiag(MaxBlocks, MaxAdjHeap, MaxAdjSteps)
    \/ DoBmat(MaxBlocks, MaxBmatRows, MaxAdjHeap, MaxAdjSteps)

SpecAdj == InitAdj /\ [][NextAdj]_vars


(***************************************************************************)
(* Properties of application (SpecApply).  In a state reached by a call,   *)
(* last.args[1] is the operator applied, last.arg the input, last.calls    *)
(* the functions invoked, last.fret what forward returned (if it did) and  *)
(* last.val the value the call returned (NoVal when it raised).            *)
(***************************************************************************)
\* The shape of v with a rank-1 length n read as (n, 1).
EffectiveShape(v) == IF Rank(v) = 1 THEN <<v.shape[1], 1>> ELSE v.shape

\* The trailing dimension of x, 1 for a rank-1 x.
TrailingDim(x) == IF Rank(x) = 1 THEN 1 ELSE x.shape[2]

AfterCall == last.op = "call"

Applied_A == heap[last.args[1]]

\* C1: for an operator of shape (r, c) and a rank-1 or rank-2 input whose
\* leading dimension differs from c, the call raises InnerDimensionMismatch,
\* forward is not invoked, and no value (truncated, padded or other) is
\* returned.
C1_WrongLeadingDimensionRejected ==
    (AfterCall /\ Rank(last.arg) \in {1, 2}
               /\ last.arg.shape[1] # Applied_A.shape[2])
    => /\ last.err = "InnerDimensionMismatch"
       /\ last.calls = <<>>
       /\ last.fret = <<>>
       /\ last.val = NoVal

\* C1's case: a (3, 2) operator whose forward would return its input,
\* applied to a (3, 2) array.
C1_Witness ==
    /\ AfterCall
    /\ Applied_A.shape = <<3, 2>>
    /\ Applied_A.forward = IdentFn
    /\ last.arg.shape = <<3, 2>>
    /\ last.err = "InnerDimensionMismatch"

\* C2: a call that returns normally returns exactly what forward returned,
\* of effective shape (r, k), k the trailing dimension of x; a rank-1 or
\* rank-2 return of any other effective shape raises DimensionMismatch, a
\* rank-0 return ZeroDimension and a return of rank > 2 HighOrderTensor.
C2_ResultIsForwardsAndCongruent ==
    AfterCall
    => /\ last.err = ""
          => /\ last.fret = <<last.val>>
             /\ Rank(last.val) \in {1, 2}
             /\ EffectiveShape(last.val) = <<Applied_A.shape[1], TrailingDim(last.arg)>>
       /\ last.fret # <<>>
          => /\ (Rank(last.fret[1]) \in {1, 2}
                 /\ EffectiveShape(last.fret[1])
                        # <<Applied_A.shape[1], TrailingDim(last.arg)>>)
                => last.err = "DimensionMismatch" /\ last.val = NoVal
             /\ Rank(last.fret[1]) = 0
                => last.err = "ZeroDimension" /\ last.val = NoVal
             /\ Rank(last.fret[1]) > 2
                => last.err = "HighOrderTensor" /\ last.val = NoVal

\* C2's case: forward returned a (2, 2) array for a rank-1 input of a
\* (2, 2) operator, which is rejected.
C2_Witness ==
    /\ AfterCall
    /\ Applied_A.shape = <<2, 2>>
    /\ Rank(last.arg) = 1
    /\ last.fret # <<>>
    /\ last.fret[1].shape = <<2, 2>>
    /\ last.err = "DimensionMismatch"

\* C3: a rank-0 input is rejected with ZeroDimension and an input of rank
\* > 2 with HighOrderTensor, whatever its leading dimension and before
\* forward is invoked; a rank-1 input of length n is treated as (n, 1): it
\* is accepted when n = c, forward receives it as it is, and the result must
\* have effective shape (r, 1).
C3_RankCheckedFirst ==
    AfterCall
    => /\ Rank(last.arg) = 0
          => last.err = "ZeroDimension" /\ last.calls = <<>> /\ last.val = NoVal
       /\ Rank(last.arg) > 2
          => last.err = "HighOrderTensor" /\ last.calls = <<>> /\ last.val = NoVal
       /\ (Rank(last.arg) = 1 /\ last.arg.shape[1] = Applied_A.shape[2])
          => /\ last.calls = <<Applied_A.forward.id>>
             /\ last.err = "" => EffectiveShape(last.val) = <<Applied_A.shape[1], 1>>
             /\ Applied_A.forward = IdentFn => last.fret = <<last.arg>>

\* C3's case: a rank-3 input whose leading dimension is the operator's
\* column count.
C3_Witness ==
    /\ AfterCall
    /\ Rank(last.arg) = 3
    /\ last.arg.shape[1] = Applied_A.shape[2]
    /\ last.err = "HighOrderTensor"

\* A shape argument that is a 2-tuple of positive integers.
IsValidShape(shape) ==
    /\ shape.tuple
    /\ Len(shape.elems) = 2
    /\ \A d \in 1..2 : shape.elems[d].t = "int" /\ shape.elems[d].v > 0

\* C9: the constructor fails with ValueError whenever the shape is not a
\* 2-tuple of positive integers (not two entries, an entry <= 0, an entry
\* that is no integer), and then produces no operator.
C9_InvalidShapeIsValueError ==
    (last.op = "init" /\ ~IsValidShape(last.arg.shape))
    => last.err = "ValueError" /\ last.ret = 0


(***************************************************************************)
(* Properties of the operator algebra (Spec).                              *)
(***************************************************************************)
\* x is an input the operator op accepts.
ValidInput(op, x) == Rank(x) \in {1, 2} /\ x.shape[1] = op.shape[2]

HasAdjoint(op) == op.adjoint # MissingAdjointFn

\* op came from toLinearOperator.
MatrixDerived(op) ==
    op.forward.k = "dot" /\ op.adjoint.k = "Tdot" /\ op.adjoint.a = op.forward.a

\* The call recorded in `last` did what the outcome o does.
LastIs(o) == last.err = o.err /\ last.val = o.val

\* A(inner's value), inner an outcome.
ThenCall(A, inner) ==
    IF inner.err # "" THEN inner ELSE CallOp(heap, lists, A, inner.val)

\* A.T(inner's value)
ThenCallT(A, inner) ==
    IF inner.err # "" THEN inner ELSE CallT(heap, lists, A, inner.val)

\* a + b, or a - b, of two outcomes, the left one evaluated first.
Combine(a, b, plus) ==
    IF a.err # "" THEN a
    ELSE IF b.err # "" THEN b
    ELSE Ok(IF plus THEN NpAdd(a.val, b.val) ELSE NpSub(a.val, b.val), <<>>)

\* The operands captured by the closure the applied operator runs.
Left_A == heap[Applied_A.forward.a]

Right_B == heap[Applied_A.forward.b]

\* The operands of the last binary combinator call.
Arg1 == heap[last.args[1]]

Arg2 == heap[last.args[2]]

\* The last operation left every operator that existed as it was.
HeapKept == \A i \in 1..Len(heap) : Len(heap') >= i /\ heap'[i] = heap[i]

C4_State ==
    last.op = "T"
    => IF ~HasAdjoint(Arg1)
       THEN last.err = "MissingAdjoint" /\ last.ret = 0
       ELSE /\ last.err = ""
            /\ last.ret = Len(heap)
            /\ last.ret # last.args[1]
            /\ heap[last.ret].shape = <<Arg1.shape[2], Arg1.shape[1]>>
            /\ heap[last.ret].forward = Arg1.adjoint
            /\ heap[last.ret].adjoint = Arg1.forward
            /\ last.calls = <<>>

\* C4: A.T raises MissingAdjoint when A was built without an adjoint;
\* otherwise it gives a new operator of A's shape reversed whose forward is
\* A's adjoint and whose adjoint is A's forward, invokes neither function
\* and leaves A as it was.
C4_TransposeSwaps ==
    /\ []C4_State
    /\ [][last'.op = "T" => HeapKept]_vars

\* C4's case: the transpose of the (1, 2) operator lifted from a matrix.
C4_Witness ==
    /\ last.op = "T"
    /\ last.err = ""
    /\ Arg1.shape = <<1, 2>>
    /\ heap[last.ret].shape = <<2, 1>>
    /\ heap[last.ret].forward.k = "Tdot"

C5_State ==
    /\ last.op = "mul"
       => IF Arg1.shape[2] # Arg2.shape[1]
          THEN last.err = "InnerDimensionMismatch" /\ last.ret = 0 /\ last.calls = <<>>
          ELSE /\ last.err = ""
               /\ last.ret = Len(heap)
               /\ heap[last.ret].shape = <<Arg1.shape[1], Arg2.shape[2]>>
    /\ (AfterCall /\ Applied_A.forward.k = "mul" /\ ValidInput(Applied_A, last.arg))
       => /\ LastIs(ThenCall(Left_A, CallOp(heap, lists, Right_B, last.arg)))
          /\ (MatrixDerived(Left_A) /\ MatrixDerived(Right_B))
             => /\ last.err = ""
                /\ last.val = NpDot(Mats[Left_A.forward.a],
                                    NpDot(Mats[Right_B.forward.a], last.arg))

\* C5: A*B is defined only when A.cols = B.rows; otherwise
\* InnerDimensionMismatch is raised when composing and no operator is
\* produced.  When defined its shape is (A.rows, B.cols) and (A*B)(x) is
\* A(B(x)) for every valid x.
C5_ProductComposes ==
    /\ []C5_State
    /\ [][(last'.op = "mul" /\ last'.err # "") => heap' = heap]_vars

\* C5's case: (C*D)(x), C of shape (1, 2) and D of shape (2, 1).
C5_Witness ==
    /\ AfterCall
    /\ Applied_A.forward.k = "mul"
    /\ Left_A.shape = <<1, 2>>
    /\ Right_B.shape = <<2, 1>>
    /\ last.err = ""
    /\ last.val.shape = <<1>>

\* C6: for compatible A and B that have adjoints and every valid y,
\* (A*B).T(y) is B.T(A.T(y)), and (A*B).T has shape (B.cols, A.rows).
C6_AdjointOfProduct ==
    /\ (last.op = "T" /\ last.err = "" /\ Arg1.forward.k = "mul")
       => heap[last.ret].shape = <<heap[Arg1.forward.b].shape[2],
                                   heap[Arg1.forward.a].shape[1]>>
    /\ (AfterCall /\ Applied_A.forward.k = "mulT"
                  /\ HasAdjoint(Left_A) /\ HasAdjoint(Right_B)
                  /\ ValidInput(Applied_A, last.arg))
       => /\ LastIs(ThenCallT(Right_B, CallT(heap, lists, Left_A, last.arg)))
          /\ (MatrixDerived(Left_A) /\ MatrixDerived(Right_B))
             => /\ last.err = ""
                /\ last.val = NpDot(NpTranspose(Mats[Right_B.forward.a]),
                                    NpDot(NpTranspose(Mats[Left_A.forward.a]), last.arg))

\* C6's case: (A*D).T(y), A of shape (2, 2) and D of shape (2, 1).
C6_Witness ==
    /\ AfterCall
    /\ Applied_A.forward.k = "mulT"
    /\ Applied_A.shape = <<1, 2>>
    /\ MatrixDerived(Left_A)
    /\ MatrixDerived(Right_B)
    /\ Left_A.shape = <<2, 2>>
    /\ Right_B.shape = <<2, 1>>
    /\ last.err = ""

C7_State ==
    /\ last.op \in {"add", "sub"}
       => IF Arg1.shape # Arg2.shape
          THEN last.err = "AllDimensionMismatch" /\ last.ret = 0 /\ last.calls = <<>>
          ELSE /\ last.err = ""
               /\ last.ret = Len(heap)
               /\ heap[last.ret].shape = Arg1.shape
    /\ (AfterCall /\ Applied_A.forward.k \in {"add", "sub"}
                  /\ ValidInput(Applied_A, last.arg))
       => LastIs(Combine(CallOp(heap, lists, Left_A, last.arg),
                         CallOp(heap, lists, Right_B, last.arg),
                         Applied_A.forward.k = "add"))
    /\ (AfterCall /\ Applied_A.forward.k \in {"addT", "subT"}
                  /\ HasAdjoint(Left_A) /\ HasAdjoint(Right_B)
                  /\ ValidInput(Applied_A, last.arg))
       => LastIs(Combine(CallT(heap, lists, Left_A, last.arg),
                         CallT(heap, lists, Right_B, last.arg),
                         Applied_A.forward.k = "addT"))

\* C7: A + B and A - B are defined only when the shapes are equal;
\* otherwise AllDimensionMismatch is raised, in either operand order, and no
\* operator is produced.  When defined the result has that shape, applies
\* to x as A(x) + B(x) (A(x) - B(x)) and its transpose applies to y as
\* A.T(y) + B.T(y) (A.T(y) - B.T(y)).
C7_SumAndDifference ==
    /\ []C7_State
    /\ [][(last'.op \in {"add", "sub"} /\ last'.err # "") => heap' = heap]_vars

\* C7's case: (A - B).T(y) for two different (2, 2) matrices.
C7_Witness ==
    /\ AfterCall
    /\ Applied_A.forward.k = "subT"
    /\ MatrixDerived(Left_A)
    /\ MatrixDerived(Right_B)
    /\ Left_A # Right_B
    /\ last.err = ""
    /\ last.val # NpSub(last.arg, last.arg)

\* C8: k*A and A*k have A's shape and are the same operator: both apply to
\* x as A(k*x) and their transposes to y as A.T(k*y); for A lifted from the
\* matrix M these are (k*M)x and (k*M)^T y.
C8_ScalarMultiple ==
    /\ last.op \in {"mulnum", "rmulnum"}
       => /\ last.err = ""
          /\ last.ret = Len(heap)
          /\ heap[last.ret].shape = Arg1.shape
          /\ heap[last.ret].forward.k = "scal"
          /\ heap[last.ret].adjoint.k = "scalT"
          /\ \A g \in {heap[last.ret].forward, heap[last.ret].adjoint} :
                 g.a = last.args[1] /\ g.b = last.args[2]
    /\ (AfterCall /\ Applied_A.forward.k = "scal" /\ ValidInput(Applied_A, last.arg))
       => /\ LastIs(CallOp(heap, lists, Left_A, NpScale(Applied_A.forward.b, last.arg)))
          /\ MatrixDerived(Left_A)
             => /\ last.err = ""
                /\ last.val = NpDot(NpScale(Applied_A.forward.b, Mats[Left_A.forward.a]),
                                    last.arg)
    /\ (AfterCall /\ Applied_A.forward.k = "scalT" /\ HasAdjoint(Left_A)
                  /\ ValidInput(Applied_A, last.arg))
       => /\ LastIs(CallT(heap, lists, Left_A, NpScale(Applied_A.forward.b, last.arg)))
          /\ MatrixDerived(Left_A)
             => /\ last.err = ""
                /\ last.val =
                       NpDot(NpTranspose(NpScale(Applied_A.forward.b,
                                                 Mats[Left_A.forward.a])),
                             last.arg)

\* C8's case: (2*C).T(y) for C lifted from the (1, 2) matrix.
C8_Witness ==
    /\ AfterCall
    /\ Applied_A.forward.k = "scalT"
    /\ Applied_A.forward.b = 2
    /\ MatrixDerived(Left_A)
    /\ Left_A.shape = <<1, 2>>
    /\ last.err = ""
    /\ last.val.data = <<6, 12>>


(***************************************************************************)
(* The shape invariant (SpecAll).                                          *)
(***************************************************************************)
\* The operator the last operation returned.
Returned_R == heap[last.ret]

\* The sum of the rows (d = 1) or of the cols (d = 2) of the blocks.
SumOfDims(blocks, d) ==
    SumTo([b \in 1..Len(blocks) |-> heap[blocks[b]].shape[d]], Len(blocks))

\* The shape the last operation's result must have, by the operation.
C10_DerivedShape ==
    (last.err = "" /\ last.ret # 0)
    => /\ last.op = "init"
          => Returned_R.shape = <<last.arg.shape.elems[1].v, last.arg.shape.elems[2].v>>
       /\ last.op = "toLinearOperator" => Returned_R.shape = Mats[last.args[1]].shape
       /\ last.op = "T" => Returned_R.shape = <<Arg1.shape[2], Arg1.shape[1]>>
       /\ last.op \in {"add", "sub", "mulnum", "rmulnum", "neg", "pos", "copy"}
          => Returned_R.shape = Arg1.shape
       /\ last.op = "mul" => Returned_R.shape = <<Arg1.shape[1], Arg2.shape[2]>>
       /\ last.op = "pow" => Returned_R.shape = Arg1.shape
       /\ last.op = "hstack"
          => /\ \A b \in 1..Len(last.args) : heap[last.args[b]].shape[1] = Arg1.shape[1]
             /\ Returned_R.shape = <<Arg1.shape[1], SumOfDims(last.args, 2)>>
       /\ last.op = "vstack"
          => /\ \A b \in 1..Len(last.args) : heap[last.args[b]].shape[2] = Arg1.shape[2]
             /\ Returned_R.shape = <<SumOfDims(last.args, 1), Arg1.shape[2]>>
       /\ last.op = "blockDiag"
          => Returned_R.shape = <<SumOfDims(last.args, 1), SumOfDims(last.args, 2)>>

C10_Positive ==
    \A i \in 1..Len(heap) : heap[i].shape[1] > 0 /\ heap[i].shape[2] > 0

\* C10: every operator obtained from constructor calls and combinators (T,
\* +, -, scalar *, operator *, **, unary -, unary +, hstack, vstack, bmat,
\* blockDiag) has rows > 0 and cols > 0, its shape never changes afterwards,
\* and the derived shapes are: T reverses; add, subtract, scalar multiply,
\* negate and copy keep the operand's; A*B gives (A.rows, B.cols); hstack
\* (rows, sum of cols); vstack (sum of rows, cols); blockDiag (sum of rows,
\* sum of cols).
C10_ShapeInvariant ==
    /\ [](C10_Positive /\ C10_DerivedShape)
    /\ [][\A i \in 1..Len(heap) :
              Len(heap') >= i /\ heap'[i].shape = heap[i].shape]_vars

\* C10's case: the transpose of hstack([A, D]), of shape (3, 2).
C10_Witness ==
    /\ last.op = "T"
    /\ last.err = ""
    /\ Arg1.forward.k = "horzcat"
    /\ Arg1.shape = <<2, 3>>
    /\ Returned_R.shape = <<3, 2>>


(***************************************************************************)
(* Algebraic laws (Spec).                                                  *)
(***************************************************************************)
\* a has the shape, the forward and the adjoint of b.
SameParts(a, b) ==
    a.shape = b.shape /\ a.forward = b.forward /\ a.adjoint = b.adjoint

\* The two operators of heap h give one outcome on every input.
SameOnInputs(h, L, a, b) ==
    \A x \in Inputs : CallOp(h, L, a, x) = CallOp(h, L, b, x)

\* A.T was taken in the last step and (A.T).T in this one.
C11_TwoTransposes ==
    /\ last.op = "T"
    /\ last.err = ""
    /\ last'.op = "T"
    /\ last'.args[1] = last.ret

\* C11: for A built with an adjoint, A.T.T has A's shape, forward and
\* adjoint, so A.T.T == A, A.T.T != A is false and A.T.T(x) is A(x) for
\* every x; it is another instance than A.
C11_TransposeInvolution ==
    [][C11_TwoTransposes
       => /\ last'.err = ""
          /\ last'.ret # last.args[1]
          /\ SameParts(heap'[last'.ret], heap[last.args[1]])
          /\ Eq(heap'[last'.ret], heap'[last.args[1]])
          /\ ~Ne(heap'[last'.ret], heap'[last.args[1]])
          /\ SameOnInputs(heap', lists', heap'[last'.ret], heap'[last.args[1]])]_vars

\* C11's case: the transpose of the transpose of the (1, 2) leaf.
C11_Witness ==
    /\ last.op = "T"
    /\ last.err = ""
    /\ last.n = 2
    /\ Arg1.forward.k = "Tdot"
    /\ Arg1.shape = <<2, 1>>
    /\ heap[last.ret].forward.k = "dot"
    /\ heap[last.ret].shape = <<1, 2>>


\* (m's operator) * heap[c], m the outcome of a product.
MulThen(m, c) == IF m.err # "" THEN m ELSE Mul(m.h, m.L, m.ret, Op(c))

\* heap[a] * (m's operator)
ThenMul(m, a) == IF m.err # "" THEN m ELSE Mul(m.h, m.L, a, Op(m.ret))

\* (heap[a] * heap[b]) * heap[c] and heap[a] * (heap[b] * heap[c]), built
\* from the present heap.
LeftAssoc(a, b, c) == MulThen(Mul(heap, lists, a, Op(b)), c)

RightAssoc(a, b, c) == ThenMul(Mul(heap, lists, b, Op(c)), a)

\* Two outcomes raise the same or return the same.
SameResult(o1, o2) == o1.err = o2.err /\ o1.val = o2.val

\* The product P just built and the other association q of heap[a],
\* heap[b], heap[c] are both defined, have the shape (A.rows, C.cols) and
\* agree on every valid input, forward and (with adjoints) transposed; for
\* matrix leaves the results are M_A (M_B (M_C x)) and
\* M_C^T (M_B^T (M_A^T y)).
Associates(P, q, a, b, c) ==
    /\ q.err = ""
    /\ P.shape = <<heap[a].shape[1], heap[c].shape[2]>>
    /\ q.h[q.ret].shape = P.shape
    /\ \A x \in Inputs :
           ValidInput(P, x)
           => /\ SameResult(CallOp(heap, lists, P, x), CallOp(q.h, q.L, q.h[q.ret], x))
              /\ (MatrixDerived(heap[a]) /\ MatrixDerived(heap[b]) /\ MatrixDerived(heap[c]))
                 => CallOp(heap, lists, P, x).val
                        = NpDot(Mats[heap[a].forward.a],
                                NpDot(Mats[heap[b].forward.a],
                                      NpDot(Mats[heap[c].forward.a], x)))
    /\ (HasAdjoint(heap[a]) /\ HasAdjoint(heap[b]) /\ HasAdjoint(heap[c]))
       => \A y \in Inputs :
              (Rank(y) \in {1, 2} /\ y.shape[1] = P.shape[1])
              => /\ SameResult(CallT(heap, lists, P, y), CallT(q.h, q.L, q.h[q.ret], y))
                 /\ (MatrixDerived(heap[a]) /\ MatrixDerived(heap[b])
                                            /\ MatrixDerived(heap[c]))
                    => CallT(heap, lists, P, y).val
                           = NpDot(NpTranspose(Mats[heap[c].forward.a]),
                                   NpDot(NpTranspose(Mats[heap[b].forward.a]),
                                         NpDot(NpTranspose(Mats[heap[a].forward.a]), y)))

\* C12: for compatible A, B, C, (A*B)*C and A*(B*C) are both defined, have
\* the shape (A.rows, C.cols) and give equal results on every valid input;
\* with adjoints their transposes do too.
C12_ProductAssociates ==
    (last.op = "mul" /\ last.err = "")
    => /\ Arg1.forward.k = "mul"
          => Associates(heap[last.ret],
                        RightAssoc(Arg1.forward.a, Arg1.forward.b, last.args[2]),
                        Arg1.forward.a, Arg1.forward.b, last.args[2])
       /\ Arg2.forward.k = "mul"
          => Associates(heap[last.ret],
                        LeftAssoc(last.args[1], Arg2.forward.a, Arg2.forward.b),
                        last.args[1], Arg2.forward.a, Arg2.forward.b)

\* C12's case: (C*D)*C with C of shape (1, 2) and D of shape (2, 1).
C12_Witness ==
    /\ last.op = "mul"
    /\ last.err = ""
    /\ Arg1.forward.k = "mul"
    /\ Arg1.shape = <<1, 1>>
    /\ MatrixDerived(Arg2)
    /\ heap[last.ret].shape = <<1, 2>>


(***************************************************************************)
(* Properties of the block builders and conversions (SpecBlock).  The      *)
(* dense matrices below are what the builders are compared with.           *)
(***************************************************************************)
\* The matrix [a b] of two matrices with equal row counts.
HCat2(a, b) ==
    LET w == a.shape[2] + b.shape[2]
    IN  Arr(<<a.shape[1], w>>,
            [p \in 1..(a.shape[1] * w) |->
                IF (p - 1) % w < a.shape[2]
                THEN At(a, ((p - 1) \div w) + 1, ((p - 1) % w) + 1)
                ELSE At(b, ((p - 1) \div w) + 1, ((p - 1) % w) + 1 - a.shape[2])])

\* The matrix [a; b] of two matrices with equal column counts.
VCat2(a, b) == Arr(<<a.shape[1] + b.shape[1], a.shape[2]>>, a.data \o b.data)

RECURSIVE HCatAll(_)
HCatAll(ms) ==
    IF Len(ms) = 1 THEN ms[1]
    ELSE HCat2(HCatAll(SubSeq(ms, 1, Len(ms) - 1)), ms[Len(ms)])

RECURSIVE VCatAll(_)
VCatAll(ms) ==
    IF Len(ms) = 1 THEN ms[1]
    ELSE VCat2(VCatAll(SubSeq(ms, 1, Len(ms) - 1)), ms[Len(ms)])

\* The matrices the blocks (operators lifted from matrices) came from.
BlockMats(blocks) == [b \in 1..Len(blocks) |-> Mats[heap[blocks[b]].forward.a]]

AllMatrixDerived(blocks) == \A b \in 1..Len(blocks) : MatrixDerived(heap[blocks[b]])

\* The outcome o is the value v, returned.
OkWith(o, v) == o.err = "" /\ o.val = v

\* The operator R has the matrix M's shape, R(x) = M x for every valid x
\* and R.T(y) = M^T y for every valid y.
AppliesAs(R, M) ==
    /\ R.shape = M.shape
    /\ \A x \in BlockInputs :
           ValidInput(R, x) => OkWith(CallOp(heap, lists, R, x), NpDot(M, x))
    /\ \A y \in BlockInputs :
           (Rank(y) \in {1, 2} /\ y.shape[1] = R.shape[1])
           => OkWith(CallT(heap, lists, R, y), NpDot(NpTranspose(M), y))

\* C13: hstack(ops) applies as the horizontally concatenated matrix times x
\* and its transpose as that matrix's transpose (each child's adjoint on the
\* whole y, stacked); vstack(ops) is the mirror image.
C13_StacksApplyAsConcatenation ==
    /\ (last.op = "hstack" /\ last.err = "" /\ AllMatrixDerived(last.args))
       => AppliesAs(heap[last.ret], HCatAll(BlockMats(last.args)))
    /\ (last.op = "vstack" /\ last.err = "" /\ AllMatrixDerived(last.args))
       => AppliesAs(heap[last.ret], VCatAll(BlockMats(last.args)))

\* C13's case: hstack([A, D]) with A of shape (2, 2) and D of shape (2, 1).
C13_Witness ==
    /\ last.op = "hstack"
    /\ last.err = ""
    /\ Len(last.args) = 2
    /\ heap[last.args[1]].shape = <<2, 2>>
    /\ heap[last.args[2]].shape = <<2, 1>>
    /\ heap[last.ret].shape = <<2, 3>>


\* Some block's dimension d differs from the first block's.
Mismatch(blocks, d) ==
    \E b \in 1..Len(blocks) : heap[blocks[b]].shape[d] # heap[blocks[1]].shape[d]

\* What a stack of last.args along dimension d must have done: the empty
\* list is refused first, then a mismatch in the other dimension; a refused
\* call returns no operator and a returned operator had neither flaw.
StackChecked(d, mismatch) ==
    /\ Len(last.args) = 0 => last.err = "ValueError(empty)"
    /\ (Len(last.args) > 0 /\ Mismatch(last.args, d)) => last.err = mismatch
    /\ last.err # "" => last.ret = 0
    /\ last.err = "" => (Len(last.args) > 0 /\ ~Mismatch(last.args, d))

C14_State ==
    /\ last.op = "hstack" => StackChecked(1, "ValueError(row mismatch)")
    /\ last.op = "vstack" => StackChecked(2, "ValueError(column mismatch)")

\* C14: hstack refuses the empty list, then blocks whose row counts differ
\* from the first's; vstack the empty list, then differing column counts;
\* the refusal happens in the call itself, which then returns no operator
\* and builds none.
C14_StackRefusals ==
    /\ []C14_State
    /\ [][(last'.op \in {"hstack", "vstack"} /\ last'.err # "")
          => (heap' = heap /\ last'.ret = 0)]_vars

\* C14's case: vstack([A, D]) refused for its columns (2 and 1).
C14_Witness ==
    /\ last.op = "vstack"
    /\ last.err = "ValueError(column mismatch)"
    /\ Len(last.args) = 2
    /\ heap[last.args[1]].shape[2] # heap[last.args[2]].shape[2]
    /\ last.ret = 0


\* The block-diagonal matrix [a 0; 0 b].
Diag2(a, b) ==
    LET w == a.shape[2] + b.shape[2]
        r == a.shape[1] + b.shape[1]
    IN  Arr(<<r, w>>,
            [p \in 1..(r * w) |->
                LET i == ((p - 1) \div w) + 1
                    j == ((p - 1) % w) + 1
                IN  IF i <= a.shape[1] /\ j <= a.shape[2] THEN At(a, i, j)
                    ELSE IF i > a.shape[1] /\ j > a.shape[2]
                    THEN At(b, i - a.shape[1], j - a.shape[2])
                    ELSE 0])

RECURSIVE DiagAll(_)
DiagAll(ms) ==
    IF Len(ms) = 1 THEN ms[1]
    ELSE Diag2(DiagAll(SubSeq(ms, 1, Len(ms) - 1)), ms[Len(ms)])

\* C15: blockDiag(ops) has shape (sum of rows, sum of cols), applies as the
\* block-diagonal matrix of the children times x, and its transpose as the
\* block-diagonal matrix of the children's transposes times y.
C15_BlockDiagApplies ==
    (last.op = "blockDiag" /\ last.err = "" /\ AllMatrixDerived(last.args))
    => /\ heap[last.ret].shape = <<SumOfDims(last.args, 1), SumOfDims(last.args, 2)>>
       /\ AppliesAs(heap[last.ret], DiagAll(BlockMats(last.args)))
       /\ \A y \in BlockInputs :
              (Rank(y) \in {1, 2} /\ y.shape[1] = heap[last.ret].shape[1])
              => OkWith(CallT(heap, lists, heap[last.ret], y),
                        NpDot(DiagAll([b \in 1..Len(last.args) |->
                                          NpTranspose(BlockMats(last.args)[b])]), y))

\* C15's case: blockDiag([A, D]) with A of shape (2, 2) and D of shape (2, 1).
C15_Witness ==
    /\ last.op = "blockDiag"
    /\ last.err = ""
    /\ Len(last.args) = 2
    /\ heap[last.args[1]].shape = <<2, 2>>
    /\ heap[last.args[2]].shape = <<2, 1>>
    /\ heap[last.ret].shape = <<4, 3>>


\* The rows bmat was given: last.arg.shape holds their lengths, last.args
\* their blocks one row after the other.
RowLens == last.arg.shape

BmatRow(r) == SubSeq(last.args, SumTo(RowLens, r - 1) + 1, SumTo(RowLens, r))

RowEmpty(r) == RowLens[r] = 0

\* The blocks of row r disagree on their row counts.
RowDisagrees(r) == Mismatch(BmatRow(r), 1)

RowWidth(r) == SumOfDims(BmatRow(r), 2)

AllHaveAdjoint(blocks) == \A b \in 1..Len(blocks) : HasAdjoint(heap[blocks[b]])

\* Non-empty outer list, no empty row, one row count within each row, one
\* total width.
WellFormed ==
    /\ Len(RowLens) > 0
    /\ \A r \in 1..Len(RowLens) :
           ~RowEmpty(r) /\ ~RowDisagrees(r) /\ RowWidth(r) = RowWidth(1)

\* C16 as stated: success exactly for well-formed rows, the empty-list error
\* whenever the outer list or some row is empty, the row-mismatch error
\* whenever some row disagrees on rows, the column-mismatch error when the
\* rows (none of them empty or disagreeing) differ in width.
C16_AsStated ==
    (last.op = "bmat" /\ AllHaveAdjoint(last.args))
    => /\ last.err = "" <=> WellFormed
       /\ (Len(RowLens) = 0 \/ \E r \in 1..Len(RowLens) : RowEmpty(r))
          => last.err = "ValueError(empty)"
       /\ (\E r \in 1..Len(RowLens) : RowDisagrees(r))
          => last.err = "ValueError(row mismatch)"
       /\ (/\ \A r \in 1..Len(RowLens) : ~RowEmpty(r) /\ ~RowDisagrees(r)
           /\ \E r \in 1..Len(RowLens) : RowWidth(r) # RowWidth(1))
          => last.err = "ValueError(column mismatch)"

\* The flaw of row r that hstack reports: emptiness before disagreement.
RowFlaw(r) ==
    IF RowEmpty(r) THEN "ValueError(empty)"
    ELSE IF RowDisagrees(r) THEN "ValueError(row mismatch)"
    ELSE ""

RECURSIVE FirstRowFlaw(_)
\* The flaw of the first flawed row from r on, "" when there is none.
FirstRowFlaw(r) ==
    IF r > Len(RowLens) THEN ""
    ELSE IF RowFlaw(r) # "" THEN RowFlaw(r)
    ELSE FirstRowFlaw(r + 1)

\* C16 (amended): for blocks with adjoints bmat(rows) succeeds exactly when
\* the rows are well formed; otherwise it fails with the first flaw met: the
\* empty outer list, else the flaw of the first flawed row (empty, or
\* disagreeing on rows), else, every row being sound, the column mismatch.
C16_FirstFlawReported ==
    (last.op = "bmat" /\ AllHaveAdjoint(last.args))
    => /\ last.err = "" <=> WellFormed
       /\ last.err # "" => last.ret = 0
       /\ last.err =
              IF Len(RowLens) = 0 THEN "ValueError(empty)"
              ELSE IF FirstRowFlaw(1) # "" THEN FirstRowFlaw(1)
              ELSE IF \E r \in 1..Len(RowLens) : RowWidth(r) # RowWidth(1)
              THEN "ValueError(column mismatch)"
              ELSE ""

\* C16's case: bmat([[A, D], [C]]), widths 3 and 2.
C16_Witness ==
    /\ last.op = "bmat"
    /\ RowLens = <<2, 1>>
    /\ AllHaveAdjoint(last.args)
    /\ RowWidth(1) = 3
    /\ RowWidth(2) = 2
    /\ last.err = "ValueError(column mismatch)"


\* vstack / hstack of the list blocks, built after the outcome m.
VstackOf(m, blocks) ==
    IF m.err # "" THEN m ELSE Vstack(m.h, Append(m.L, blocks), Len(m.L) + 1)

HstackOf(m, blocks) ==
    IF m.err # "" THEN m ELSE Hstack(m.h, Append(m.L, blocks), Len(m.L) + 1)

\* hstack([r1, m2's operator]) and vstack([r1, m2's operator])
HstackWith(r1, m2) == HstackOf(m2, <<r1, m2.ret>>)

VstackWith(r1, m2) == VstackOf(m2, <<r1, m2.ret>>)

HstackAfter(m1, b, d) == HstackWith(m1.ret, VstackOf(m1, <<b, d>>))

VstackAfter(m1, c, d) == VstackWith(m1.ret, HstackOf(m1, <<c, d>>))

\* hstack([vstack([a, c]), vstack([b, d])]) built from the present heap.
HstackOfVstacks(a, b, c, d) ==
    HstackAfter(VstackOf(Made("", heap, lists, 0), <<a, c>>), b, d)

\* vstack([hstack([a, b]), hstack([c, d])]) built from the present heap.
VstackOfHstacks(a, b, c, d) ==
    VstackAfter(HstackOf(Made("", heap, lists, 0), <<a, b>>), c, d)

\* The outcome q built an operator with the matrix M's shape that applies,
\* forward and transposed, as M does.
BuiltAs(q, M) ==
    /\ q.err = ""
    /\ q.h[q.ret].shape = M.shape
    /\ \A x \in BlockInputs :
           (Rank(x) \in {1, 2} /\ x.shape[1] = M.shape[2])
           => OkWith(CallOp(q.h, q.L, q.h[q.ret], x), NpDot(M, x))
    /\ \A y \in BlockInputs :
           (Rank(y) \in {1, 2} /\ y.shape[1] = M.shape[1])
           => OkWith(CallT(q.h, q.L, q.h[q.ret], y), NpDot(NpTranspose(M), y))

\* The block matrix [a b; c d] of the matrices the four blocks came from.
GridMatrix(a, b, c, d) ==
    VCat2(HCat2(Mats[heap[a].forward.a], Mats[heap[b].forward.a]),
          HCat2(Mats[heap[c].forward.a], Mats[heap[d].forward.a]))

\* The blocks a b / c d form a consistent grid: equal rows within a row of
\* the grid, equal cols within a column.
ConsistentGrid(a, b, c, d) ==
    /\ heap[a].shape[1] = heap[b].shape[1]
    /\ heap[c].shape[1] = heap[d].shape[1]
    /\ heap[a].shape[2] = heap[c].shape[2]
    /\ heap[b].shape[2] = heap[d].shape[2]

GridAgrees(a, b, c, d) ==
    /\ last.err = ""
    /\ AppliesAs(heap[last.ret], GridMatrix(a, b, c, d))
    /\ BuiltAs(VstackOfHstacks(a, b, c, d), GridMatrix(a, b, c, d))
    /\ BuiltAs(HstackOfVstacks(a, b, c, d), GridMatrix(a, b, c, d))

\* C17: for a consistent 2x2 grid, bmat([[A, B], [C, D]]),
\* vstack([hstack([A, B]), hstack([C, D])]) and
\* hstack([vstack([A, C]), vstack([B, D])]) have the same shape and give, on
\* every valid input, forward and transposed, what the block matrix gives.
C17_GridThreeWays ==
    (/\ last.op = "bmat"
     /\ RowLens = <<2, 2>>
     /\ AllMatrixDerived(last.args)
     /\ ConsistentGrid(last.args[1], last.args[2], last.args[3], last.args[4]))
    => GridAgrees(last.args[1], last.args[2], last.args[3], last.args[4])

\* C17's case: bmat([[A, B], [C, C]]) with A, B of shape (2, 2) and C of
\* shape (1, 2).
C17_Witness ==
    /\ last.op = "bmat"
    /\ last.err = ""
    /\ RowLens = <<2, 2>>
    /\ heap[last.args[1]].shape = <<2, 2>>
    /\ last.args[1] # last.args[2]
    /\ heap[last.args[3]].shape = <<1, 2>>
    /\ heap[last.ret].shape = <<3, 4>>


\* What toLinearOperator(M) must have done: for a 2-D M an operator of M's
\* shape applying as M, whose toMatrix is M; a failure otherwise.
Lifted(M) ==
    IF Rank(M) = 2
    THEN /\ last.err = ""
         /\ AppliesAs(heap[last.ret], M)
         /\ OkWith(ToMatrix(heap, lists, heap[last.ret]), M)
    ELSE last.err # "" /\ last.ret = 0

\* C18: toLinearOperator(M) of a 2-D M has M's shape, gives M x on every
\* input with leading dimension c and M^T y transposed on every input with
\* leading dimension r, and toMatrix gives M back; toLinearOperator fails
\* when M is not 2-D.
C18_MatrixRoundTrip ==
    /\ last.op = "toLinearOperator" => Lifted(Mats[last.args[1]])
    /\ (last.op = "toMatrix" /\ MatrixDerived(Arg1))
       => OkWith(last, Mats[Arg1.forward.a])

\* C18's case: toMatrix of an operator this run lifted from a 2-D matrix.
C18_Witness ==
    /\ last.op = "toMatrix"
    /\ last.args[1] = Len(Lift(4)) + 1
    /\ MatrixDerived(Arg1)
    /\ last.val = Mats[Arg1.forward.a]
    /\ last.val.shape = <<2, 1>>


(***************************************************************************)
(* Properties of equality (SpecEq).                                        *)
(***************************************************************************)
\* The two compared operators come from two sums of the same two operands:
\* two closures computing the same function.
TwinSums ==
    /\ Arg1.forward # Arg2.forward
    /\ Arg1.forward.k = "add"
    /\ Arg2.forward.k = "add"
    /\ Arg1.forward.a = Arg2.forward.a
    /\ Arg1.forward.b = Arg2.forward.b

\* C19: A == B exactly when the shapes are equal, the forwards are the same
\* callable and the adjoints are the same callable (two operators without
\* adjoint share the missing-adjoint function); A != B is its negation;
\* operators built from two closures computing the same function are
\* unequal.
C19_EqualityByIdentity ==
    /\ last.op = "eq" => last.val = PyBool(SameParts(Arg1, Arg2))
    /\ last.op = "ne" => last.val = PyBool(~SameParts(Arg1, Arg2))
    /\ (last.op \in {"eq", "ne"} /\ ~HasAdjoint(Arg1) /\ ~HasAdjoint(Arg2))
       => last.val = PyBool((last.op = "eq")
                            <=> (Arg1.shape = Arg2.shape /\ Arg1.forward = Arg2.forward))
    /\ (last.op \in {"eq", "ne"} /\ TwinSums)
       => /\ \A x \in Inputs : SameResult(CallOp(heap, lists, Arg1, x),
                                            CallOp(heap, lists, Arg2, x))
          /\ last.val = PyBool(last.op = "ne")

\* C19's case: (A + B) == (A + B), the two sums built one after the other.
C19_Witness ==
    /\ last.op = "eq"
    /\ TwinSums
    /\ Arg1.shape = Arg2.shape
    /\ last.val = PyBool(FALSE)


(***************************************************************************)
(* Properties of the power (SpecAll).                                      *)
(***************************************************************************)
RECURSIVE TimesApplied(_, _, _)
\* A applied k more times to the outcome o.
TimesApplied(A, o, k) ==
    IF k = 0 \/ o.err # "" THEN o
    ELSE TimesApplied(A, CallOp(heap, lists, A, o.val), k - 1)

RECURSIVE MatrixTimes(_, _, _)
\* m (m (... (m x))), k times.
MatrixTimes(m, x, k) == IF k = 0 THEN x ELSE NpDot(m, MatrixTimes(m, x, k - 1))

IsSquare(op) == op.shape[1] = op.shape[2]

\* A**n of the square A: A's shape, and on every valid input what n
\* applications of A give.
PowerApplies(A, R, n) ==
    /\ last.err = ""
    /\ R.shape = A.shape
    /\ \A x \in Inputs :
           ValidInput(A, x)
           => /\ SameResult(CallOp(heap, lists, R, x), TimesApplied(A, Ok(x, <<>>), n))
              /\ MatrixDerived(A)
                 => OkWith(CallOp(heap, lists, R, x), MatrixTimes(Mats[A.forward.a], x, n))

C20_State ==
    last.op = "pow"
    => /\ last.args[2] <= 0 => (last.err # "" /\ last.ret = 0)
       /\ (last.args[2] >= 1 /\ IsSquare(Arg1))
          => PowerApplies(Arg1, heap[last.ret], last.args[2])
       /\ (last.args[2] >= 2 /\ ~IsSquare(Arg1))
          => (last.err = "InnerDimensionMismatch" /\ last.ret = 0)

\* C20: for a square A and n >= 1, A**n has A's shape and applies as A
\* applied n times; n <= 0 is rejected and no operator is made; a
\* non-square A with n >= 2 raises InnerDimensionMismatch.
C20_Power ==
    /\ []C20_State
    /\ [][(last'.op = "pow" /\ last'.args[2] <= 0) => heap' = heap]_vars

\* C20's case: A**3 for the matrix-lifted A of shape (2, 2).
C20_Witness ==
    /\ last.op = "pow"
    /\ last.args[2] = 3
    /\ last.err = ""
    /\ MatrixDerived(Arg1)
    /\ heap[last.ret].shape = <<2, 2>>
    /\ heap[last.ret].forward.k = "mul"


(***************************************************************************)
(* Scalar multiples of operators without adjoint (Spec).                   *)
(***************************************************************************)
\* k*A or A*k was just taken of an A built without adjoint.
ScaledAdjointless == last.op \in {"mulnum", "rmulnum"} /\ ~HasAdjoint(Arg1)

\* The product was constructed and applies forward as A(k*x).
ScaledForwardWorks ==
    /\ last.err = ""
    /\ last.ret = Len(heap)
    /\ heap[last.ret].shape = Arg1.shape
    /\ \A x \in Inputs :
           ValidInput(Arg1, x)
           => /\ SameResult(CallOp(heap, lists, heap[last.ret], x),
                            CallOp(heap, lists, Arg1, NpScale(last.args[2], x)))
              /\ Arg1.forward.k = "dot"
                 => OkWith(CallOp(heap, lists, heap[last.ret], x),
                           NpDot(Mats[Arg1.forward.a], NpScale(last.args[2], x)))

\* The step takes the transpose of the scalar multiple just built.
TransposeOfScaled ==
    /\ ScaledAdjointless
    /\ last.err = ""
    /\ last'.op = "T"
    /\ last'.args[1] = last.ret

C21_Scaled == ScaledAdjointless => ScaledForwardWorks

\* C21 as stated: k*A and A*k of an adjoint-less A are constructed and apply
\* forward, and requesting the transpose of the product fails with
\* MissingAdjoint.
C21_AsStated ==
    /\ []C21_Scaled
    /\ [][TransposeOfScaled => (last'.err = "MissingAdjoint" /\ last'.ret = 0)]_vars

\* y is an input the transpose of op accepts.
ValidInputT(op, y) == Rank(y) \in {1, 2} /\ y.shape[1] = op.shape[1]

C21_ScaledDeferred ==
    ScaledAdjointless
    => /\ ScaledForwardWorks
       /\ HasAdjoint(heap[last.ret])
       /\ \A y \in Inputs :
              ValidInputT(Arg1, y)
              => CallT(heap, lists, heap[last.ret], y).err = "MissingAdjoint"

\* C21 (amended): k*A and A*k of an adjoint-less A are constructed and apply
\* forward; the product carries an adjoint closure, so its transpose is
\* constructed too, and it is applying that transpose that fails with
\* MissingAdjoint.
C21_TransposeFailsWhenApplied ==
    /\ []C21_ScaledDeferred
    /\ [][TransposeOfScaled
          => /\ last'.err = ""
             /\ heap'[last'.ret].shape = Reversed(heap[last.ret].shape)
             /\ \A y \in Inputs :
                    ValidInputT(Arg1, y)
                    => CallOp(heap', lists', heap'[last'.ret], y).err = "MissingAdjoint"]_vars

\* C21's case: the transpose of 2 * A, A built without adjoint, applied to a
\* valid y.
C21_Witness ==
    /\ last.op = "call"
    /\ Applied_A.forward.k = "scalT"
    /\ ~HasAdjoint(heap[Applied_A.forward.a])
    /\ ValidInput(Applied_A, last.arg)
    /\ last.err = "MissingAdjoint"


(***************************************************************************)
(* The three application forms (SpecApply).                                *)
(***************************************************************************)
\* C22: for every operator A and raw array x of any rank and leading
\* dimension, A*x and A.dot(x) give the outcome of A(x): the same result
\* when A(x) succeeds, the same error kind when it fails.
C22_ApplicationFormsAgree ==
    last.op \in {"mularr", "dot"}
    => SameResult(last, CallOp(heap, lists, Arg1, last.arg))


(***************************************************************************)
(* One-element stacks (SpecBlock).                                         *)
(***************************************************************************)
\* hstack([A]) or vstack([A]) has just returned.
StackOfOne ==
    last.op \in {"hstack", "vstack"} /\ Len(last.args) = 1 /\ last.err = ""

BehavesAs(R, A) ==
    /\ R.shape = A.shape
    /\ \A x \in ApplyInputs :
           Rank(x) \in {1, 2}
           => /\ SameResult(CallOp(heap, lists, R, x), CallOp(heap, lists, A, x))
              /\ SameResult(CallT(heap, lists, R, x), CallT(heap, lists, A, x))

\* C24: hstack([A]) and vstack([A]) have A's shape and give, on every rank-1
\* or rank-2 input, valid or not, the outcome of A, and their transposes the
\* outcome of A.T.
C24_OneElementStackBehavesAsChild == StackOfOne => BehavesAs(heap[last.ret], Arg1)


(***************************************************************************)
(* The copy +A (SpecEq).                                                   *)
(***************************************************************************)
\* +A is a new instance with A's shape, forward and adjoint: it equals A,
\* applies as A, and its transpose fails or equals A's as A's does.
C25_State ==
    last.op = "pos"
    => /\ last.err = ""
       /\ last.ret = Len(heap)
       /\ last.ret # last.args[1]
       /\ SameParts(heap[last.ret], Arg1)
       /\ Eq(heap[last.ret], Arg1)
       /\ ~Ne(heap[last.ret], Arg1)
       /\ \A x \in Inputs :
              SameResult(CallOp(heap, lists, heap[last.ret], x),
                         CallOp(heap, lists, Arg1, x))
       /\ IF HasAdjoint(Arg1)
          THEN T(heap[last.ret]).err = "" /\ Eq(T(heap[last.ret]).obj, T(Arg1).obj)
          ELSE T(heap[last.ret]).err = "MissingAdjoint"

\* The step takes the transpose of the copy just made.
TransposeOfCopy == last.op = "pos" /\ last'.op = "T" /\ last'.args[1] = last.ret

\* C25: +A is a new instance sharing A's shape, forward and adjoint, so
\* +A == A and +A applies as A; (+A).T fails with MissingAdjoint when A was
\* built without adjoint and equals A.T otherwise.
C25_PosIsACopy ==
    /\ []C25_State
    /\ [][TransposeOfCopy
          => IF HasAdjoint(Arg1)
             THEN last'.err = "" /\ Eq(heap'[last'.ret], T(Arg1).obj)
             ELSE last'.err = "MissingAdjoint" /\ last'.ret = 0]_vars

\* C25's case: the transpose of +A was asked for, A built without adjoint.
C25_Witness ==
    /\ last.op = "T"
    /\ last.err = "MissingAdjoint"
    /\ last.args[1] = Len(heap)
    /\ last.args[1] > Len(Leaves)
    /\ ~HasAdjoint(Arg1)
    /\ SameParts(Arg1, heap[Len(Leaves)])


(***************************************************************************)
(* The shape-adapting wrapper.                                             *)
(***************************************************************************)
\* The (n, 1) column holding the entries of the rank-1 array a.
ColumnOf(a) == Dense(Arr(<<a.shape[1], 1>>, a.data))

\* The wrapper's outcome is the kernel's own on the argument y.
PassedThrough(y) ==
    /\ last.calls = <<y>>
    /\ last.err = KernelCall(last.args[1], y).err
    /\ last.err = "" => /\ last.fret = <<KernelCall(last.args[1], y).val>>
                        /\ last.val = last.fret[1]

\* C26: the matmat wrapper keeps the caller's rank: for a rank-1 input of
\* length n the kernel is called with the (n, 1) column and its result comes
\* back flattened to rank 1 (same entries, same order); for a rank-2 input,
\* a (1, 1) one included, the kernel is called with the input itself and its
\* result is returned unmodified (still 2-D when the kernel returned 2-D); a
\* sparse input goes to the kernel untouched and the kernel's result comes
\* back untouched; and a second call with the same kernel and input gives
\* the same outcome as the first.
C26_RankKept ==
    last.op = "matmat" =>
        /\ last.arg.sparse => PassedThrough(last.arg)
        /\ (~last.arg.sparse /\ Rank(last.arg.a) = 2) =>
               /\ PassedThrough(last.arg)
               /\ (last.err = "" /\ Rank(last.fret[1].a) = 2) => Rank(last.val.a) = 2
        /\ (~last.arg.sparse /\ Rank(last.arg.a) = 1) =>
               /\ last.calls = <<ColumnOf(last.arg.a)>>
               /\ last.err = KernelCall(last.args[1], ColumnOf(last.arg.a)).err
               /\ last.err = "" =>
                      /\ last.fret = <<KernelCall(last.args[1], ColumnOf(last.arg.a)).val>>
                      /\ ~last.val.sparse
                      /\ Rank(last.val.a) = 1
                      /\ last.val.a.data = last.fret[1].a.data

C26_MatmatPreservesRank ==
    /\ []C26_RankKept
    /\ [][(last.op = "matmat" /\ last'.op = "matmat"
           /\ last'.args = last.args /\ last'.arg = last.arg)
          => (last'.err = last.err /\ last'.val = last.val
              /\ last'.calls = last.calls)]_vars

\* C26's case: a second call with a rank-1 input of length 3, the kernel
\* having returned the (3, 1) column it was given.
C26_Witness ==
    /\ last.op = "matmat"
    /\ last.n = 2
    /\ last.args = <<IdentFn>>
    /\ last.arg = Dense(Arr(<<3>>, <<1, 2, 3>>))
    /\ last.fret = <<Dense(Arr(<<3, 1>>, <<1, 2, 3>>))>>
    /\ last.val = Dense(Arr(<<3>>, <<1, 2, 3>>))

(***************************************************************************)
(* Combinators and their operands.                                         *)
(***************************************************************************)
Combinators ==
    {"T", "add", "sub", "mul", "mulnum", "rmulnum", "pow", "neg", "pos",
     "hstack", "vstack", "bmat", "blockDiag"}

\* The step is a combinator call.
CombinatorStep == last'.op \in Combinators /\ last' # last

\* The step returned an operator object that did not exist before it.
ReturnedNew == last'.ret \in (Len(heap) + 1)..Len(heap')

\* The step is A**1.
PowerOne == last'.op = "pow" /\ last'.args[2] = 1

\* C27 as stated: every combinator (T, +, -, scalar *, operator *, ** for
\* every n >= 1, unary -, unary +, hstack, vstack, bmat, blockDiag) returns a
\* new instance, distinct from each of its operands, and, succeeding or
\* failing, leaves shape, forward and adjoint of every operand (of every
\* operator that existed) unchanged.
C27_AsStated ==
    [][CombinatorStep => /\ HeapKept
                         /\ last'.err = "" => ReturnedNew]_vars

\* C27 (amended): as stated for T, +, -, scalar *, operator *, ** with
\* n >= 2, unary -, unary +, hstack, vstack, bmat and blockDiag; A**1
\* returns A itself, not a new instance (the fold over a single A makes no
\* product); no combinator, succeeding or failing, changes an operand.
C27_NewInstanceUnlessPowerOne ==
    [][CombinatorStep =>
          /\ HeapKept
          /\ (last'.err = "" /\ ~PowerOne) => ReturnedNew
          /\ PowerOne => (last'.err = "" /\ last'.ret = last'.args[1]
                          /\ heap' = heap)]_vars

\* C27's case: A**1 has returned the square A it was asked of.
C27_Witness ==
    /\ last.op = "pow"
    /\ last.args[2] = 1
    /\ last.err = ""
    /\ last.ret = last.args[1]
    /\ IsSquare(Arg1)

(***************************************************************************)
(* Block operators and the list they were built from.                      *)
(***************************************************************************)
\* The step changed the list the script holds.
ListStep == last'.op \in ListOps /\ last'.err = "" /\ lists' # lists

\* The operator d applies, and its transpose applies, after the step as
\* before it.
AppliesAsBefore(d) ==
    /\ heap'[d].shape = heap[d].shape
    /\ \A x \in BlockInputs :
           /\ SameResult(CallOp(heap', lists', heap'[d], x), CallOp(heap, lists, heap[d], x))
           /\ SameResult(CallT(heap', lists', heap'[d], x), CallT(heap, lists, heap[d], x))

\* C28: a composite operator's behaviour is fixed at construction: once
\* D = hstack(ops), vstack(ops) or blockDiag(ops) has been returned, appending
\* to ops, removing from it or replacing an element of it changes neither
\* D.shape nor the outcome of D(x) or D.T(y) for any input (D's forward and
\* adjoint keep working on the blocks the split offsets were computed for).
C28_FixedAtConstruction ==
    [][ListStep => \A d \in 1..Len(heap) : AppliesAsBefore(d)]_vars

(***************************************************************************)
(* Adjoint consistency.                                                    *)
(***************************************************************************)
\* The i-th unit vector of length n, and the vector (1, 2, ..., n).
UnitVec(n, i) == Arr(<<n>>, [j \in 1..n |-> IF j = i THEN 1 ELSE 0])

Ramp(n) == Arr(<<n>>, [j \in 1..n |-> j])

TestVecs(n) == {UnitVec(n, i) : i \in 1..n} \cup {Ramp(n)}

\* <u, v> of two rank-1 arrays of one length.
Inner(u, v) == SumTo([i \in 1..Len(u.data) |-> u.data[i] * v.data[i]], Len(u.data))

\* <O.T(y), x> = <y, O(x)>, Ox and OTy being the outcomes of O(x) and O.T(y).
IdentityAt(x, y, Ox, OTy) ==
    /\ Ox.err = ""
    /\ OTy.err = ""
    /\ OTy.val.shape = x.shape
    /\ Ox.val.shape = y.shape
    /\ Inner(OTy.val, x) = Inner(y, Ox.val)

\* The adjoint identity of the operator O, on the test vectors of its sizes.
AdjointConsistent(O) ==
    \A x \in TestVecs(O.shape[2]), y \in TestVecs(O.shape[1]) :
        IdentityAt(x, y, CallOp(heap, lists, O, x), CallT(heap, lists, O, y))

\* The operator operands of the last combinator call.
OperandsOfLast ==
    IF last.op \in {"add", "sub", "mul", "hstack", "vstack", "blockDiag", "bmat"}
    THEN {last.args[a] : a \in 1..Len(last.args)}
    ELSE {last.args[1]}

C29_Preserved ==
    (last.op \in Combinators /\ last.err = "" /\ last.ret # 0
     /\ \A i \in OperandsOfLast : AdjointConsistent(heap[i]))
    => AdjointConsistent(Returned_R)

C29_ScaledAdjointFails == ~AdjointConsistent(heap[3])

\* C29: the combinators preserve adjoint consistency: when every operand
\* satisfies <X.T(y), x> = <y, X(x)>, so does the result of A+B, A-B, k*A,
\* A*k, -A, A*B, A**n, A.T, hstack, vstack, bmat and blockDiag; and the
\* operator whose adjoint is twice its forward's true adjoint violates the
\* identity.
C29_AdjointConsistency == C29_Preserved /\ C29_ScaledAdjointFails

\* C29's case: a block operator built by bmat from consistent operands, a
\* composite among them, satisfies the identity.
C29_Witness ==
    /\ last.op = "bmat"
    /\ last.err = ""
    /\ Len(last.args) >= 2
    /\ \E i \in OperandsOfLast : i > 3
    /\ \A i \in OperandsOfLast : AdjointConsistent(heap[i])
    /\ AdjointConsistent(Returned_R)

(***************************************************************************)
(* Block builders over children without an adjoint.                        *)
(***************************************************************************)
\* The last call was a stack or a bmat and some child has no adjoint.
AdjointlessChild == last.op \in {"hstack", "vstack", "bmat"} /\ ~AllHaveAdjoint(last.args)

\* C30 as stated: hstack, vstack and bmat need every child's adjoint at
\* construction: with any adjoint-less child the call raises MissingAdjoint
\* and returns no operator; blockDiag constructs from adjoint-less children.
C30_AsStated ==
    /\ AdjointlessChild => (last.err = "MissingAdjoint" /\ last.ret = 0)
    /\ (last.op = "blockDiag" /\ Len(last.args) > 0) => last.err = ""

\* What stops hstack on row r of bmat's rows: the row's flaw, else an
\* adjoint-less block in it.
RowStop(r) ==
    IF RowFlaw(r) # "" THEN RowFlaw(r)
    ELSE IF ~AllHaveAdjoint(BmatRow(r)) THEN "MissingAdjoint"
    ELSE ""

RECURSIVE FirstRowStop(_)
FirstRowStop(r) ==
    IF r > Len(RowLens) THEN ""
    ELSE IF RowStop(r) # "" THEN RowStop(r)
    ELSE FirstRowStop(r + 1)

\* The matrix a child applies as: its own, or the identity for a square
\* child whose forward returns its input.
ChildMats(blocks) ==
    [b \in 1..Len(blocks) |->
        IF heap[blocks[b]].forward = IdentFn THEN Eye(heap[blocks[b]].shape[1])
        ELSE Mats[heap[blocks[b]].forward.a]]

\* Every child's forward is a matrix product or, for a square child, the
\* identity.
SoundChildren(blocks) ==
    \A b \in 1..Len(blocks) :
        \/ heap[blocks[b]].forward.k = "dot"
        \/ heap[blocks[b]].forward = IdentFn /\ IsSquare(heap[blocks[b]])

\* C30 (amended): a stack over an adjoint-less child never returns an
\* operator: hstack and vstack raise MissingAdjoint at construction when the
\* shape check before it passes (equal row counts, resp. column counts) and
\* that check's ValueError otherwise; bmat raises what stops the first row
\* that is flawed or holds an adjoint-less block (the row's ValueError before
\* MissingAdjoint).  blockDiag constructs from any non-empty list, adjoints
\* or none, and its forward applies as the block-diagonal matrix of its
\* children on every valid input.
C30_StacksNeedAdjoints ==
    /\ AdjointlessChild => last.ret = 0
    /\ (AdjointlessChild /\ last.op = "hstack")
       => last.err = IF Mismatch(last.args, 1) THEN "ValueError(row mismatch)"
                     ELSE "MissingAdjoint"
    /\ (AdjointlessChild /\ last.op = "vstack")
       => last.err = IF Mismatch(last.args, 2) THEN "ValueError(column mismatch)"
                     ELSE "MissingAdjoint"
    /\ (AdjointlessChild /\ last.op = "bmat") => last.err = FirstRowStop(1)
    /\ (last.op = "blockDiag" /\ Len(last.args) > 0)
       => /\ last.err = ""
          /\ SoundChildren(last.args)
             => \A x \in BlockInputs :
                    ValidInput(Returned_R, x)
                    => OkWith(CallOp(heap, lists, Returned_R, x),
                              NpDot(DiagAll(ChildMats(last.args)), x))

\* C30's case: hstack of a matrix block and an adjoint-less block of equal
\* row counts, refused with MissingAdjoint.
C30_Witness ==
    /\ last.op = "hstack"
    /\ Len(last.args) = 2
    /\ ~AllHaveAdjoint(last.args)
    /\ MatrixDerived(heap[last.args[1]])
    /\ ~Mismatch(last.args, 1)
    /\ last.err = "MissingAdjoint"
=============================================================================
